---- MODULE Spec2Model ----
(***************************************************************************)
(* Model of the hybrid rank-fusion search of memento-cloudflare:           *)
(* hybridSearchWithRRF and vectorSearch (semantic-search.ts) running       *)
(* against the Neo4j store that the tools of memento-tools.ts write to.    *)
(*                                                                         *)
(* Every `await neo4j.query(...)` of a handler is one step: the statement  *)
(* is evaluated atomically on the store, and other requests may run        *)
(* between two steps of the same handler.                                  *)
(*                                                                         *)
(* Numbers.  RRF scores are exact rationals [num, den] with den > 0 (the   *)
(* code uses IEEE doubles).  Similarity scores are tenths (6 = 0.6), and   *)
(* lexical scores are halves (3 = 1.5).  Limits are whole numbers >= 0.    *)
(*                                                                         *)
(* Text.  A string is a sequence of characters.  The observations property *)
(* of an entity holds the JSON text that the tools write, and JSON.parse   *)
(* is modelled on the texts that can arise here: `null` and arrays of      *)
(* strings with \" and \\ escapes; every other text is a SyntaxError.       *)
(***************************************************************************)
EXTENDS Integers, Sequences, FiniteSets, TLC

VARIABLES
    entState,       \* store: name -> "absent" | "live" (validTo null) | "deleted" (validTo set)
    relState,       \* store: <<from, to>> -> "absent" | "live" | "deleted"
    obsState,       \* store: name -> the value of e.observations
    pc,             \* position of the search invocation
    mode,           \* "hybrid" (hybridSearchWithRRF) or "vector" (vectorSearch)
    optLimit,       \* options.limit as passed by the caller (0 = falsy / omitted)
    optRrfK,        \* options.rrfK as passed by the caller (0 = falsy / omitted)
    optMinSim,      \* options.minSimilarity as passed, in tenths (0 = falsy / omitted)
    now,            \* Date.now()
    startTime,      \* const startTime
    vectorResults,  \* rows of the vector index query
    keywordResults, \* rows of the keyword query
    rrfScores,      \* the rrfScores Map after both forEach loops
    sortedResults,  \* fused, sorted, truncated candidates
    entityNames,    \* $names of the two hydration queries
    entities,       \* rows of the entity hydration query
    result,         \* <<>> while none, else <<SearchResult>>
    calls,          \* number of store queries issued, per capability
    doc,            \* an entity as passed to create_entities: [name, observations]
    queryText,      \* the query text matched against it
    docStored,      \* the value of its observations property in the store
    readBack,       \* <<>> or <<what parseObservations made of docStored>>
    lexical,        \* <<>> or <<outcome of the keyword statement for the entity>>
    entStamp,       \* store: name -> [createdAt, validFrom, validTo] of the entity
    relStamp,       \* store: <<from, to>> -> [createdAt, validFrom, validTo] of the relation
    invocation,     \* per caller: the tool invocation it has in progress
    responses,      \* failures so far: internal message and what the caller was told
    history,        \* instant -> what was visible when the instant ended
    atTime,         \* <<>> or <<answer of get_graph_at_time>>
    issued,         \* OAuth: <<>> or <<the data passed to signState>>
    presented,      \* OAuth: the state token handed to verifyAndDecodeState
    verdict,        \* OAuth: <<>> or <<what verifyAndDecodeState returned or threw>>
    authorize,      \* OAuth: the GET /authorize request and its response
    callback        \* OAuth: the GET /callback request, its progress and its response

vars == <<entState, relState, pc, mode, optLimit, optRrfK, optMinSim, now, startTime,
          vectorResults, keywordResults, rrfScores, sortedResults, entityNames, entities,
          result, calls, obsState, doc, queryText, docStored, readBack, lexical,
          entStamp, relStamp, invocation, responses, history, atTime,
          issued, presented, verdict, authorize, callback>>

storeVars == <<entState, relState, obsState>>

textVars == <<doc, queryText, docStored, readBack, lexical>>

toolVars == <<entStamp, relStamp, invocation, responses, history, atTime>>

authVars == <<issued, presented, verdict, authorize, callback>>

----------------------------------------------------------------------------
(* Bounds and input sets *)

MaxLimit == 2
MaxClock == 2

DefaultLimit == 10
DefaultRrfK == 60
DefaultMinSimilarity == 6

\* Entity names; the writing tools are called with the names of WriterNames and the
\* relation of RelPairs
Names == {"A", "B", "C", "D"}
WriterNames == {"A", "B"}
RelPairs == {<<"A", "B">>}

LimitOptions == 0..MaxLimit
\* 0 stands for an omitted rrfK; -7 keeps k + index + 1 away from 0 (1/0 is Infinity in JS)
RrfKOptions == {0, 1, -7}
\* similarity scores 0.5 and 0.7, on either side of the default floor 0.6
SimLevels == {5, 7}
MinSimOptions == {0, 5, 7}
\* minSimilarity as passed to the hybrid search: omitted, or a floor above a score
HybridMinSimOptions == {0, 7}
\* every keyword row is a name-only match (bm25Score 2.0)
Bm25Levels == {4}

Capabilities == {"vector", "keyword", "entities", "relations"}

\* Longest list of observations passed to create_entities
MaxObs == 3

Quote == "\""
Backslash == "\\"

\* Observation texts: two plain ones, one with a quote and one with a backslash
ObsTexts == {<<"a">>, <<"b">>, <<"a", Quote>>, <<Backslash, "b">>}
ObsLists == UNION {[1..n -> ObsTexts] : n \in 0..MaxObs}
EntityNameTexts == {<<"a", "b">>, <<"b">>}
QueryTexts == {<<"a">>, <<Quote>>}
\* The observations the writing tools of the search model pass
WriterObservations == {<<<<"a">>>>}

----------------------------------------------------------------------------
(* Exact arithmetic on scores *)

Frac(n, d) == IF d < 0 THEN [num |-> -n, den |-> -d] ELSE [num |-> n, den |-> d]
FracAdd(a, b) == [num |-> a.num * b.den + b.num * a.den, den |-> a.den * b.den]
FracEq(a, b) == a.num * b.den = b.num * a.den
FracLT(a, b) == a.num * b.den < b.num * a.den

Min(a, b) == IF a < b THEN a ELSE b

\* Variant: the rank is taken one too low
RrfScore_NoPlusOne(rrfK, index) == Frac(1, rrfK + index)

\* const rrfScore = 1 / (rrfK + index + 1), index zero-based
RrfScore(rrfK, index) == Frac(1, rrfK + index + 1)

----------------------------------------------------------------------------
(* Option defaults: `options.x || default` *)

EffLimit(l) == IF l = 0 THEN DefaultLimit ELSE l
EffRrfK(k) == IF k = 0 THEN DefaultRrfK ELSE k
EffMinSim(m) == IF m = 0 THEN DefaultMinSimilarity ELSE m

----------------------------------------------------------------------------
(* The rrfScores Map: a sequence of entries in insertion order *)

MapIndex(m, id) == CHOOSE i \in 1..Len(m) : m[i].id = id
MapHas(m, id) == \E i \in 1..Len(m) : m[i].id = id
MapGet(m, id) == m[MapIndex(m, id)]
\* Map.prototype.set: an existing key keeps its position
MapSet(m, id, val) ==
    IF MapHas(m, id)
    THEN [m EXCEPT ![MapIndex(m, id)] = val]
    ELSE Append(m, val)

RECURSIVE AddVectorResults(_, _, _, _)
AddVectorResults(m, vr, i, rrfK) ==
    IF i > Len(vr) THEN m
    ELSE AddVectorResults(
            MapSet(m, vr[i].id,
                   [id |-> vr[i].id,
                    score |-> RrfScore(rrfK, i - 1),
                    vectorScore |-> <<vr[i].vectorScore>>,
                    bm25Score |-> <<>>]),
            vr, i + 1, rrfK)

\* Variant: the keyword score overwrites the vector score instead of being added to it
KeywordEntry_Overwrite(m, rec, index, rrfK) ==
    [id |-> rec.id,
     score |-> RrfScore(rrfK, index),
     vectorScore |-> IF MapHas(m, rec.id) THEN MapGet(m, rec.id).vectorScore ELSE <<>>,
     bm25Score |-> <<rec.bm25Score>>]

KeywordEntry(m, rec, index, rrfK) ==
    IF MapHas(m, rec.id)
    THEN [id |-> rec.id,
          score |-> FracAdd(MapGet(m, rec.id).score, RrfScore(rrfK, index)),
          vectorScore |-> MapGet(m, rec.id).vectorScore,
          bm25Score |-> <<rec.bm25Score>>]
    ELSE [id |-> rec.id,
          score |-> RrfScore(rrfK, index),
          vectorScore |-> <<>>,
          bm25Score |-> <<rec.bm25Score>>]

RECURSIVE AddKeywordResults(_, _, _, _)
AddKeywordResults(m, kr, i, rrfK) ==
    IF i > Len(kr) THEN m
    ELSE AddKeywordResults(
            MapSet(m, kr[i].id, KeywordEntry(m, kr[i], i - 1, rrfK)),
            kr, i + 1, rrfK)

RrfScores(vr, kr, rrfK) ==
    AddKeywordResults(AddVectorResults(<<>>, vr, 1, rrfK), kr, 1, rrfK)

\* Variant: equal scores count as "before", which reverses ties
Before_TiesReversed(a, b) == ~FracLT(a.score, b.score)

\* sort((a, b) => b[1].score - a[1].score): a goes before b iff its score is greater;
\* Array.prototype.sort is stable
Before(a, b) == FracLT(b.score, a.score)

InsertSorted(s, x) ==
    LET p == IF \E i \in 1..Len(s) : Before(x, s[i])
             THEN CHOOSE i \in 1..Len(s) :
                      /\ Before(x, s[i])
                      /\ \A j \in 1..(i - 1) : ~Before(x, s[j])
             ELSE Len(s) + 1
    IN SubSeq(s, 1, p - 1) \o <<x>> \o SubSeq(s, p, Len(s))

RECURSIVE SortUpTo(_, _)
SortUpTo(s, n) == IF n = 0 THEN <<>> ELSE InsertSorted(SortUpTo(s, n - 1), s[n])

\* Variant: the Map entries are not sorted
SortByScore_Unsorted(s) == s

SortByScore(s) == SortUpTo(s, Len(s))

\* .slice(0, limit)
Slice(s, limit) == SubSeq(s, 1, Min(limit, Len(s)))

----------------------------------------------------------------------------
(* Values, JSON text and the observations property *)

NullValue == [kind |-> "null"]
StringValue(t) == [kind |-> "string", text |-> t]
ListValue(x) == [kind |-> "list", items |-> x]

\* Variant: characters are written as they are, quotes and backslashes included
EscapeChar_Raw(c) == <<c>>

\* JSON.stringify of one character of a string
EscapeChar(c) == IF c \in {Quote, Backslash} THEN <<Backslash, c>> ELSE <<c>>

RECURSIVE Escape(_)
Escape(str) == IF str = <<>> THEN <<>> ELSE EscapeChar(Head(str)) \o Escape(Tail(str))

Quoted(str) == <<Quote>> \o Escape(str) \o <<Quote>>

RECURSIVE JoinQuoted(_)
JoinQuoted(x) ==
    IF x = <<>> THEN <<>>
    ELSE IF Len(x) = 1 THEN Quoted(x[1])
    ELSE Quoted(x[1]) \o <<",">> \o JoinQuoted(Tail(x))

\* JSON.stringify(entity.observations), an array of strings
JsonStringify(x) == <<"[">> \o JoinQuoted(x) \o <<"]">>

SyntaxError == [ok |-> FALSE, value |-> NullValue, next |-> 0]

\* A JSON string from position i, just after its opening quote
RECURSIVE ParseString(_, _, _)
ParseString(t, i, acc) ==
    IF i > Len(t) THEN SyntaxError
    ELSE IF t[i] = Quote THEN [ok |-> TRUE, value |-> acc, next |-> i + 1]
    ELSE IF t[i] = Backslash
    THEN IF i + 1 <= Len(t) /\ t[i + 1] \in {Quote, Backslash}
         THEN ParseString(t, i + 2, Append(acc, t[i + 1]))
         ELSE SyntaxError
    ELSE ParseString(t, i + 1, Append(acc, t[i]))

\* The elements of a non-empty JSON array from position i, up to its closing bracket
RECURSIVE ParseElements(_, _, _)
ParseElements(t, i, acc) ==
    IF i > Len(t) \/ t[i] # Quote THEN SyntaxError
    ELSE LET str == ParseString(t, i + 1, <<>>)
         IN IF ~str.ok \/ str.next > Len(t) THEN SyntaxError
            ELSE IF t[str.next] = "]"
            THEN [ok |-> TRUE, value |-> Append(acc, str.value), next |-> str.next + 1]
            ELSE IF t[str.next] = ","
            THEN ParseElements(t, str.next + 1, Append(acc, str.value))
            ELSE SyntaxError

\* JSON.parse of a text: [ok |-> TRUE, value |-> v], or a SyntaxError
JsonParseText(t) ==
    IF t = <<"n", "u", "l", "l">> THEN [ok |-> TRUE, value |-> NullValue, next |-> 5]
    ELSE IF Len(t) >= 2 /\ t[1] = "["
    THEN IF t[2] = "]"
         THEN IF Len(t) = 2 THEN [ok |-> TRUE, value |-> ListValue(<<>>), next |-> 3]
              ELSE SyntaxError
         ELSE LET els == ParseElements(t, 2, <<>>)
              IN IF els.ok /\ els.next = Len(t) + 1
                 THEN [ok |-> TRUE, value |-> ListValue(els.value), next |-> els.next]
                 ELSE SyntaxError
    ELSE SyntaxError

\* JSON.parse converts its argument to a string first: null becomes the text `null`
ToText(v) == IF v.kind = "null" THEN <<"n", "u", "l", "l">> ELSE v.text

JsonParse(v) == JsonParseText(ToText(v))

\* !obs: null, undefined and the empty string
Falsy(v) == v.kind = "null" \/ (v.kind = "string" /\ v.text = <<>>)

\* parseObservations(obs) of memento-tools.ts
ParseObservations(obs) ==
    IF Falsy(obs) THEN ListValue(<<>>)
    ELSE IF JsonParse(obs).ok THEN JsonParse(obs).value
    ELSE ListValue(<<>>)

\* (() => { try { return JSON.parse(e.observations); } catch (error) { return []; } })()
HydrateObservations(obs) ==
    IF JsonParse(obs).ok THEN JsonParse(obs).value ELSE ListValue(<<>>)

----------------------------------------------------------------------------
(* The store's answers to the statements of the search *)

Range(s) == {s[i] : i \in 1..Len(s)}

InjSeqs(S, n) ==
    UNION {{s \in [1..m -> S] : \A i, j \in 1..m : i # j => s[i] # s[j]} :
           m \in 0..Min(n, Cardinality(S))}

Orderings(S) == {s \in InjSeqs(S, Cardinality(S)) : Len(s) = Cardinality(S)}

\* ORDER BY score DESC
ScoreSeqs(len, Levels) ==
    {f \in [1..len -> Levels] : \A i \in 1..(len - 1) : f[i] >= f[i + 1]}

\* Nodes of the store; neither ranking statement looks at validTo
Nodes == {n \in Names : entState[n] # "absent"}

\* Variant: the statement without `WHERE score >= $minScore`
VectorRows_NoFloor(limit, minScore) ==
    UNION {{[i \in 1..Len(ids) |-> [id |-> ids[i], vectorScore |-> sc[i]]] :
               sc \in ScoreSeqs(Len(ids), SimLevels)} :
           ids \in InjSeqs(Nodes, limit)}

\* CALL db.index.vector.queryNodes('entity_embeddings', $limit, $embedding)
\* YIELD node, score [WHERE score >= $minScore] ... ORDER BY score DESC
VectorRows(limit, minScore) ==
    UNION {{[i \in 1..Len(ids) |-> [id |-> ids[i], vectorScore |-> sc[i]]] :
               sc \in ScoreSeqs(Len(ids), {l \in SimLevels : l >= minScore})} :
           ids \in InjSeqs(Nodes, limit)}

\* MATCH (e:Entity) WHERE e.name CONTAINS $queryText OR ANY(...)
\* ... ORDER BY bm25Score DESC LIMIT $limit
KeywordRows(limit) ==
    UNION {{[i \in 1..Len(ids) |-> [id |-> ids[i], bm25Score |-> sc[i]]] :
               sc \in ScoreSeqs(Len(ids), Bm25Levels)} :
           ids \in InjSeqs(Nodes, limit)}

\* e.name CONTAINS $queryText, obs CONTAINS $queryText
Contains(str, q) ==
    \E i \in 0..(Len(str) - Len(q)) : SubSeq(str, i + 1, i + Len(q)) = q

\* What `obs IN e.observations` ranges over. A list property is ranged over as it is.
\* The tools store a string: the statement then either ranges over that one value or is
\* rejected with a type error, depending on the server. Over a missing property the
\* quantifier and the comprehension are null.
Traversals(stored) ==
    IF stored.kind = "list" THEN {[kind |-> "list", items |-> stored.items]}
    ELSE IF stored.kind = "string"
    THEN {[kind |-> "list", items |-> <<stored.text>>], [kind |-> "error"]}
    ELSE {[kind |-> "null"]}

\* size([obs IN e.observations WHERE obs CONTAINS $queryText])
CountMatching(items, q) == Cardinality({i \in 1..Len(items) : Contains(items[i], q)})

\* CASE WHEN e.name CONTAINS $queryText THEN 2.0 ELSE 1.0 END, in halves
NameBoost(name, q) == IF Contains(name, q) THEN 4 ELSE 2

\* Variant: the statement without its first WHERE clause
KeywordWhere_All(name, obsMatches, q) == TRUE

\* WHERE e.name CONTAINS $queryText OR ANY(obs IN e.observations WHERE obs CONTAINS ...)
KeywordWhere(name, obsMatches, q) == Contains(name, q) \/ obsMatches > 0

\* The keyword statement on one entity: its row, no row, or a failed query.
\* bm25Score = nameBoost + obsMatches * 0.5, in halves; a null score fails bm25Score > 0
KeywordOutcome(name, tr, q) ==
    IF tr.kind = "error" THEN [kind |-> "error"]
    ELSE IF tr.kind = "null" THEN [kind |-> "none"]
    ELSE LET obsMatches == CountMatching(tr.items, q)
             bm25Score == NameBoost(name, q) + obsMatches
         IN IF KeywordWhere(name, obsMatches, q) /\ bm25Score > 0
            THEN [kind |-> "row", nameBoost |-> NameBoost(name, q),
                  obsMatches |-> obsMatches, bm25Score |-> bm25Score]
            ELSE [kind |-> "none"]

KeywordOutcomes(name, stored, q) ==
    {KeywordOutcome(name, tr, q) : tr \in Traversals(stored)}

\* Variant: the hydration statement without `AND e.validTo IS NULL`
EntityVisible_NoValidToFilter(n) == entState[n] # "absent"

\* MATCH (e:Entity) WHERE e.name IN $names AND e.validTo IS NULL RETURN ... (no ORDER BY)
EntityVisible(n) == entState[n] = "live"

EntityRows(names) ==
    {[i \in 1..Len(o) |-> [name |-> o[i], observations |-> obsState[o[i]]]] :
        o \in Orderings({n \in Range(names) : EntityVisible(n)})}

\* MATCH (from:Entity)-[r:RELATES_TO]->(to:Entity)
\* WHERE from.name IN $names AND to.name IN $names AND r.validTo IS NULL
RelationMatches(p, names) ==
    /\ relState[p] = "live"
    /\ p[1] \in Range(names)
    /\ p[2] \in Range(names)

RelationRows(names) ==
    {[i \in 1..Len(o) |-> [fromName |-> o[i][1], toName |-> o[i][2]]] :
        o \in Orderings({p \in RelPairs : RelationMatches(p, names)})}

----------------------------------------------------------------------------
(* hybridSearchWithRRF and vectorSearch *)

NoCalls == [c \in Capabilities |-> 0]

Issue(c) == calls' = [calls EXCEPT ![c] = @ + 1]

EmptyResult(t) == [entities |-> <<>>, relations |-> <<>>, total |-> 0, timeTaken |-> t]

\* Date.now() - startTime
TimeTaken == now - startTime

\* Variant: the empty-list early return is missing
IsEmptyList_Never(s) == FALSE

\* if (sortedResults.length === 0)
IsEmptyList(s) == Len(s) = 0

\* sortedResults.map(([name]) => name)
IdsOf(s) == [i \in 1..Len(s) |-> s[i].id]

\* entities.map((e) => ({ name: e.name, observations: ..., ... }))
ResultEntities(rows) ==
    [i \in 1..Len(rows) |->
        [name |-> rows[i].name,
         observations |-> HydrateObservations(rows[i].observations)]]

\* relations.map((r) => ({ from: r.fromName, to: r.toName, ... }))
ResultRelations(rows) ==
    [i \in 1..Len(rows) |-> [from |-> rows[i].fromName, to |-> rows[i].toName]]

\* Variant: total counts the candidates instead of the hydrated rows
SearchResult_TotalOfCandidates(entityRows, relationRows) ==
    [entities |-> ResultEntities(entityRows),
     relations |-> ResultRelations(relationRows),
     total |-> Len(entityNames),
     timeTaken |-> TimeTaken]

SearchResult(entityRows, relationRows) ==
    [entities |-> ResultEntities(entityRows),
     relations |-> ResultRelations(relationRows),
     total |-> Len(entityRows),
     timeTaken |-> TimeTaken]

\* Variant: both ranker queries are issued at once (Promise.all)
StartHybrid_IssuesBoth(limit, rrfK, minSim) ==
    /\ pc = "idle"
    /\ pc' = "vector"
    /\ mode' = "hybrid"
    /\ optLimit' = limit
    /\ optRrfK' = rrfK
    /\ optMinSim' = minSim
    /\ startTime' = now
    /\ calls' = [calls EXCEPT !["vector"] = @ + 1, !["keyword"] = @ + 1]
    /\ UNCHANGED <<authVars, toolVars, storeVars, textVars, now, vectorResults, keywordResults, rrfScores,
                   sortedResults, entityNames, entities, result>>

\* Issues the vector index query with $limit = Math.floor(limit * 2); options.minSimilarity
\* is accepted and never read
StartHybrid(limit, rrfK, minSim) ==
    /\ pc = "idle"
    /\ pc' = "vector"
    /\ mode' = "hybrid"
    /\ optLimit' = limit
    /\ optRrfK' = rrfK
    /\ optMinSim' = minSim
    /\ startTime' = now
    /\ Issue("vector")
    /\ UNCHANGED <<authVars, toolVars, storeVars, textVars, now, vectorResults, keywordResults, rrfScores,
                   sortedResults, entityNames, entities, result>>

\* The vector rows arrive; the keyword query is issued
VectorReturn ==
    /\ pc = "vector"
    /\ mode = "hybrid"
    /\ \E rows \in VectorRows(2 * EffLimit(optLimit), 0) : vectorResults' = rows
    /\ pc' = "keyword"
    /\ Issue("keyword")
    /\ UNCHANGED <<authVars, toolVars, storeVars, textVars, mode, optLimit, optRrfK, optMinSim, now, startTime,
                   keywordResults, rrfScores, sortedResults, entityNames, entities, result>>

\* The keyword rows arrive; fusion, sort and slice run; either the empty result is
\* returned or the entity hydration query is issued
KeywordReturn ==
    /\ pc = "keyword"
    /\ \E rows \in KeywordRows(2 * EffLimit(optLimit)) : keywordResults' = rows
    /\ rrfScores' = RrfScores(vectorResults, keywordResults', EffRrfK(optRrfK))
    /\ sortedResults' = Slice(SortByScore(rrfScores'), EffLimit(optLimit))
    /\ IF IsEmptyList(sortedResults')
       THEN /\ result' = <<EmptyResult(TimeTaken)>>
            /\ pc' = "done"
            /\ UNCHANGED <<entityNames, calls>>
       ELSE /\ entityNames' = IdsOf(sortedResults')
            /\ pc' = "entities"
            /\ Issue("entities")
            /\ UNCHANGED result
    /\ UNCHANGED <<authVars, toolVars, storeVars, textVars, mode, optLimit, optRrfK, optMinSim, now, startTime,
                   vectorResults, entities>>

\* The entity rows arrive; the relation query is issued
EntitiesReturn ==
    /\ pc = "entities"
    /\ \E rows \in EntityRows(entityNames) : entities' = rows
    /\ pc' = "relations"
    /\ Issue("relations")
    /\ UNCHANGED <<authVars, toolVars, storeVars, textVars, mode, optLimit, optRrfK, optMinSim, now, startTime,
                   vectorResults, keywordResults, rrfScores, sortedResults, entityNames,
                   result>>

\* The relation rows arrive; the SearchResult is built and returned
RelationsReturn ==
    /\ pc = "relations"
    /\ \E rows \in RelationRows(entityNames) :
           result' = <<SearchResult(entities, rows)>>
    /\ pc' = "done"
    /\ UNCHANGED <<authVars, toolVars, storeVars, textVars, mode, optLimit, optRrfK, optMinSim, now, startTime,
                   vectorResults, keywordResults, rrfScores, sortedResults, entityNames,
                   entities, calls>>

\* vectorSearch: issues the vector index query with $limit = limit, $minScore = minSimilarity
StartVector(limit, minSim) ==
    /\ pc = "idle"
    /\ pc' = "vector"
    /\ mode' = "vector"
    /\ optLimit' = limit
    /\ optMinSim' = minSim
    /\ startTime' = now
    /\ Issue("vector")
    /\ UNCHANGED <<authVars, toolVars, storeVars, textVars, optRrfK, now, vectorResults, keywordResults, rrfScores,
                   sortedResults, entityNames, entities, result>>

\* vectorSearch: the vector rows arrive; empty result or entity hydration
VectorOnlyReturn ==
    /\ pc = "vector"
    /\ mode = "vector"
    /\ \E rows \in VectorRows(EffLimit(optLimit), EffMinSim(optMinSim)) :
        /\ vectorResults' = rows
        /\ IF IsEmptyList(rows)
           THEN /\ result' = <<EmptyResult(TimeTaken)>>
                /\ pc' = "done"
                /\ UNCHANGED <<entityNames, calls>>
           ELSE /\ entityNames' = IdsOf(rows)
                /\ pc' = "entities"
                /\ Issue("entities")
                /\ UNCHANGED result
    /\ UNCHANGED <<authVars, toolVars, storeVars, textVars, mode, optLimit, optRrfK, optMinSim, now, startTime,
                   keywordResults, rrfScores, sortedResults, entities>>

\* Variant: a failed query is swallowed and a result is built from what has arrived
QueryFails_PartialResult ==
    /\ pc \in {"vector", "keyword", "entities", "relations"}
    /\ pc' = "done"
    /\ result' = <<SearchResult(entities, <<>>)>>
    /\ UNCHANGED <<authVars, toolVars, storeVars, textVars, mode, optLimit, optRrfK, optMinSim, now, startTime,
                   vectorResults, keywordResults, rrfScores, sortedResults, entityNames,
                   entities, calls>>

\* Variant: a failed query is issued again
QueryFails_Retry ==
    /\ pc \in {"vector", "keyword", "entities", "relations"}
    /\ calls' = [calls EXCEPT ![pc] = @ + 1]
    /\ UNCHANGED <<authVars, toolVars, storeVars, textVars, pc, mode, optLimit, optRrfK, optMinSim, now, startTime,
                   vectorResults, keywordResults, rrfScores, sortedResults, entityNames,
                   entities, result>>

\* A store query in flight fails (non-2xx response): query() throws, the search rethrows
QueryFails ==
    /\ pc \in {"vector", "keyword", "entities", "relations"}
    /\ pc' = "failed"
    /\ UNCHANGED <<authVars, toolVars, storeVars, textVars, mode, optLimit, optRrfK, optMinSim, now, startTime,
                   vectorResults, keywordResults, rrfScores, sortedResults, entityNames,
                   entities, result, calls>>

\* Wall-clock time passes while a query is in flight
Tick ==
    /\ pc \in {"vector", "keyword", "entities", "relations"}
    /\ now < MaxClock
    /\ now' = now + 1
    /\ UNCHANGED <<authVars, toolVars, storeVars, textVars, pc, mode, optLimit, optRrfK, optMinSim, startTime,
                   vectorResults, keywordResults, rrfScores, sortedResults, entityNames,
                   entities, result, calls>>

searchVars == <<pc, mode, optLimit, optRrfK, optMinSim, now, startTime, vectorResults,
                keywordResults, rrfScores, sortedResults, entityNames, entities, result,
                calls>>

----------------------------------------------------------------------------
(* The tools that write to the store; each is one statement *)

InFlightOrIdle == pc \notin {"done", "failed"}

\* create_entities: MERGE (e:Entity {name: $name}) ... SET e.observations = $observations
\* (JSON.stringify(entity.observations)) ... e.validTo = null, ON CREATE and ON MATCH
CreateEntity(n) ==
    /\ InFlightOrIdle
    /\ entState' = [entState EXCEPT ![n] = "live"]
    /\ \E obs \in WriterObservations :
           obsState' = [obsState EXCEPT ![n] = StringValue(JsonStringify(obs))]
    /\ UNCHANGED <<authVars, toolVars, relState, searchVars, textVars>>

\* create_relations: MATCH (from), (to) WHERE both validTo IS NULL  MERGE (from)-[r]->(to)
CreateRelation(p) ==
    /\ InFlightOrIdle
    /\ entState[p[1]] = "live"
    /\ entState[p[2]] = "live"
    /\ relState' = [relState EXCEPT ![p] = "live"]
    /\ UNCHANGED <<authVars, toolVars, entState, obsState, searchVars, textVars>>

\* delete_entities: SET e.validTo = $now on the visible named entities and on their
\* visible relations
DeleteEntities(names) ==
    /\ InFlightOrIdle
    /\ LET hit == {n \in names : entState[n] = "live"}
       IN /\ entState' = [n \in Names |-> IF n \in hit THEN "deleted" ELSE entState[n]]
          /\ relState' = [p \in RelPairs |->
                            IF relState[p] = "live" /\ (p[1] \in hit \/ p[2] \in hit)
                            THEN "deleted" ELSE relState[p]]
    /\ UNCHANGED <<authVars, toolVars, obsState, searchVars, textVars>>

\* delete_relations: SET r.validTo = $now on the visible relation
DeleteRelation(p) ==
    /\ InFlightOrIdle
    /\ relState[p] = "live"
    /\ relState' = [relState EXCEPT ![p] = "deleted"]
    /\ UNCHANGED <<authVars, toolVars, entState, obsState, searchVars, textVars>>

----------------------------------------------------------------------------
(* The tools as their callers see them: invocations of several callers, whose   *)
(* awaits interleave, with the timestamps they write and the responses they     *)
(* return.  The search model above uses the statements alone.                   *)

\* validTo = null; a property that was never set
NoStamp == -1
NoStamps == [createdAt |-> NoStamp, validFrom |-> NoStamp, validTo |-> NoStamp]

\* What is visible in a store: entities without validTo, and relations without validTo
\* between two such entities
Visible(es, rs) ==
    [entities |-> {n \in Names : es[n] = "live"},
     relations |-> {p \in RelPairs : rs[p] = "live" /\ es[p[1]] = "live" /\ es[p[2]] = "live"}]

\* Concurrent callers of the tools
Procs == {1, 2}

\* Longest `entities` array passed to create_entities
MaxBatch == 2
CreateInputs == UNION {[1..n -> WriterNames] : n \in 0..MaxBatch}

SingleInputs == {input \in CreateInputs : Len(input) = 1}

\* error.message of what neo4j.query and generateEmbedding throw
Messages == {"Neo4j query failed (503): unavailable", "Voyage API error: 401"}

\* No invocation in progress
Idle ==
    [tool |-> "none", pc |-> "idle", input |-> <<>>, i |-> 0, stamp |-> NoStamp,
     existing |-> <<>>, results |-> <<>>]

\* Variant: the message of the error is appended to the text
SanitizeError_Leaky(message, operation) == <<"Operation failed: ", operation, ": ", message>>

\* sanitizeError(error, operation): `Operation failed: ${operation}`
SanitizeError(message, operation) == <<"Operation failed: ", operation>>

\* text: `**Error**: ${sanitizeError(error, '<tool>')}`, isError: true
ErrorResponse(message, operation) ==
    [isError |-> TRUE, text |-> <<"**Error**: ">> \o SanitizeError(message, operation)]

\* What a failure told the caller, next to the message that was logged
Failure(operation, message, text) ==
    [operation |-> operation, message |-> message, text |-> text]

\* results.push({ name, entityType, wasCreated })
CreatedEntry(n, wasCreated) ==
    [name |-> n, kind |-> "ok", wasCreated |-> wasCreated, error |-> <<>>]

\* results.push({ name, entityType, error: sanitizeError(error, 'create_entity') })
ErrorEntry(n, message) ==
    [name |-> n, kind |-> "error", wasCreated |-> FALSE,
     error |-> SanitizeError(message, "create_entity")]

\* for (const entity of entities) { try { const now = Date.now(); ...
\*   await embeddings.generateEmbedding(...)
EnterIteration(rec, i) ==
    IF i <= Len(rec.input)
    THEN [rec EXCEPT !.i = i, !.stamp = now, !.pc = "embed"]
    ELSE [rec EXCEPT !.i = i, !.pc = "return"]

PushResult(rec, entry) ==
    EnterIteration([rec EXCEPT !.results = Append(@, entry)], rec.i + 1)

\* Variant: the first failure ends the loop
PushError_Break(rec, message) ==
    [rec EXCEPT !.results = Append(@, ErrorEntry(rec.input[rec.i], message)),
                !.pc = "return"]

\* } catch (error) { results.push({ ..., error }) }  and on to the next entity
PushError(rec, message) == PushResult(rec, ErrorEntry(rec.input[rec.i], message))

\* async ({ entities }) => { ... for (const entity of entities) ...
CreateEntitiesCall(p, input) ==
    /\ invocation[p] = Idle
    /\ invocation' = [invocation EXCEPT ![p] =
           EnterIteration([Idle EXCEPT !.tool = "create_entities", !.input = input], 1)]
    /\ UNCHANGED <<authVars, storeVars, searchVars, textVars, entStamp, relStamp, responses, history, atTime>>

\* createNeo4jClient or createEmbeddingsService throws: the outer catch
CreateEntitiesFails(p, message) ==
    /\ invocation[p] = Idle
    /\ responses' = responses \cup
           {Failure("create_entities", message,
                    ErrorResponse(message, "create_entities").text)}
    /\ UNCHANGED <<authVars, storeVars, searchVars, textVars, entStamp, relStamp, invocation, history, atTime>>

\* semantic_search: hybridSearchWithRRF or vectorSearch throws; the catch of the tool
SemanticSearchFails(message) ==
    /\ responses' = responses \cup
           {Failure("semantic_search", message,
                    ErrorResponse(message, "semantic_search").text)}
    /\ UNCHANGED <<authVars, storeVars, searchVars, textVars, entStamp, relStamp, invocation, history, atTime>>

\* generateEmbedding resolves; the MERGE statement is sent
EmbeddingReturn(p) ==
    /\ invocation[p].tool = "create_entities"
    /\ invocation[p].pc = "embed"
    /\ invocation' = [invocation EXCEPT ![p].pc = "merge"]
    /\ UNCHANGED <<authVars, storeVars, searchVars, textVars, entStamp, relStamp, responses, history, atTime>>

\* generateEmbedding or neo4j.query throws inside the loop body
EntityFails(p, message) ==
    /\ invocation[p].tool = "create_entities"
    /\ invocation[p].pc \in {"embed", "merge"}
    /\ invocation' = [invocation EXCEPT ![p] = PushError(@, message)]
    /\ responses' = responses \cup
           {Failure("create_entity", message, SanitizeError(message, "create_entity"))}
    /\ UNCHANGED <<authVars, storeVars, searchVars, textVars, entStamp, relStamp, history, atTime>>

\* MERGE (e:Entity {name: $name})
\* ON CREATE SET e.createdAt = $now, e.validFrom = $now, e.validTo = null, ...
\* ON MATCH SET e.observations = $observations, ..., e.validTo = null
\* RETURN e.name AS name, e.createdAt = $now AS wasCreated
MergeReturn(p) ==
    /\ invocation[p].tool = "create_entities"
    /\ invocation[p].pc = "merge"
    /\ LET n == invocation[p].input[invocation[p].i]
           stamp == invocation[p].stamp
       IN /\ entStamp' = [entStamp EXCEPT ![n] =
                 IF entState[n] = "absent"
                 THEN [createdAt |-> stamp, validFrom |-> stamp, validTo |-> NoStamp]
                 ELSE [@ EXCEPT !.validTo = NoStamp]]
          /\ entState' = [entState EXCEPT ![n] = "live"]
          /\ \E obs \in WriterObservations :
                 obsState' = [obsState EXCEPT ![n] = StringValue(JsonStringify(obs))]
          /\ invocation' = [invocation EXCEPT ![p] =
                 PushResult(@, CreatedEntry(n, entStamp'[n].createdAt = stamp))]
    /\ history' = [history EXCEPT ![now] = Visible(entState', relState)]
    /\ UNCHANGED <<authVars, relState, searchVars, textVars, relStamp, responses, atTime>>

\* return { content: [{ text: JSON.stringify({ entities: results }) }] }
CreateEntitiesReturn(p) ==
    /\ invocation[p].tool = "create_entities"
    /\ invocation[p].pc = "return"
    /\ invocation' = [invocation EXCEPT ![p] = Idle]
    /\ UNCHANGED <<authVars, storeVars, searchVars, textVars, entStamp, relStamp, responses, history, atTime>>

\* { requested: entityNames, actuallyDeleted: deletedCount }, and the like
Responded(tool, input, entry) ==
    [Idle EXCEPT !.tool = tool, !.input = input, !.pc = "return", !.results = <<entry>>]

\* Variant: only the relations that start at a deleted entity: (e)-[r:RELATES_TO]->()
IncidentRelations_Outgoing(hit) ==
    {r \in RelPairs : relState[r] = "live" /\ r[1] \in hit}

\* OPTIONAL MATCH (e)-[r:RELATES_TO]-() WHERE r.validTo IS NULL
IncidentRelations(hit) ==
    {r \in RelPairs : relState[r] = "live" /\ (r[1] \in hit \/ r[2] \in hit)}

\* delete_entities: const now = Date.now(); one statement
\* MATCH (e:Entity) WHERE e.name IN $names AND e.validTo IS NULL SET e.validTo = $now
\* WITH e OPTIONAL MATCH (e)-[r:RELATES_TO]-() WHERE r.validTo IS NULL
\* SET r.validTo = $now RETURN count(DISTINCT e) AS deletedCount
DeleteEntitiesCall(p, names) ==
    /\ invocation[p] = Idle
    /\ LET hit == {n \in names : entState[n] = "live"}
           incident == IncidentRelations(hit)
       IN /\ entState' = [n \in Names |-> IF n \in hit THEN "deleted" ELSE entState[n]]
          /\ entStamp' = [n \in Names |->
                 IF n \in hit THEN [entStamp[n] EXCEPT !.validTo = now] ELSE entStamp[n]]
          /\ relState' = [r \in RelPairs |->
                 IF r \in incident THEN "deleted" ELSE relState[r]]
          /\ relStamp' = [r \in RelPairs |->
                 IF r \in incident THEN [relStamp[r] EXCEPT !.validTo = now] ELSE relStamp[r]]
          /\ invocation' = [invocation EXCEPT ![p] =
                 Responded("delete_entities", names,
                           [requested |-> names, actuallyDeleted |-> Cardinality(hit)])]
    /\ history' = [history EXCEPT ![now] = Visible(entState', relState')]
    /\ UNCHANGED <<authVars, obsState, searchVars, textVars, responses, atTime>>

\* Variant: the endpoints are matched by name alone
EndpointsVisible_ByName(r) == entState[r[1]] # "absent" /\ entState[r[2]] # "absent"

\* MATCH (from), (to) WHERE from.validTo IS NULL AND to.validTo IS NULL
EndpointsVisible(r) == entState[r[1]] = "live" /\ entState[r[2]] = "live"

\* create_relations, one relation:
\* MATCH (from:Entity {name: $from}), (to:Entity {name: $to})
\* WHERE from.validTo IS NULL AND to.validTo IS NULL
\* MERGE (from)-[r:RELATES_TO {relationType: $relationType}]->(to)
\* ON CREATE SET r.createdAt = $now, r.validFrom = $now, r.validTo = null
\* ON MATCH SET ..., r.validTo = null   RETURN ..., r.createdAt = $now AS wasCreated
CreateRelationsCall(p, r) ==
    /\ invocation[p] = Idle
    /\ IF EndpointsVisible(r)
       THEN /\ relStamp' = [relStamp EXCEPT ![r] =
                   IF relState[r] = "absent"
                   THEN [createdAt |-> now, validFrom |-> now, validTo |-> NoStamp]
                   ELSE [@ EXCEPT !.validTo = NoStamp]]
            /\ relState' = [relState EXCEPT ![r] = "live"]
            /\ invocation' = [invocation EXCEPT ![p] =
                   Responded("create_relations", <<r>>,
                             [kind |-> "ok", wasCreated |-> relStamp'[r].createdAt = now])]
       ELSE /\ UNCHANGED <<relState, relStamp>>
            /\ invocation' = [invocation EXCEPT ![p] =
                   Responded("create_relations", <<r>>,
                             [kind |-> "error", wasCreated |-> FALSE])]
    /\ history' = [history EXCEPT ![now] = Visible(entState, relState')]
    /\ UNCHANGED <<authVars, entState, obsState, searchVars, textVars, entStamp, responses, atTime>>

\* delete_relations, one relation:
\* MATCH (from {name: $from})-[r:RELATES_TO {...}]->(to {name: $to})
\* WHERE r.validTo IS NULL SET r.validTo = $now RETURN count(r) AS deletedCount
DeleteRelationsCall(p, r) ==
    /\ invocation[p] = Idle
    /\ relState' = [relState EXCEPT ![r] = IF @ = "live" THEN "deleted" ELSE @]
    /\ relStamp' = [relStamp EXCEPT ![r] =
           IF relState[r] = "live" THEN [@ EXCEPT !.validTo = now] ELSE @]
    /\ invocation' = [invocation EXCEPT ![p] =
           Responded("delete_relations", <<r>>, [wasDeleted |-> relState[r] = "live"])]
    /\ history' = [history EXCEPT ![now] = Visible(entState, relState')]
    /\ UNCHANGED <<authVars, entState, obsState, searchVars, textVars, entStamp, responses, atTime>>

\* update_relation: ... WHERE r.validTo IS NULL SET r.strength, r.confidence, r.updatedAt,
\* r.version; neither validFrom nor validTo is written
UpdateRelationCall(p, r) ==
    /\ invocation[p] = Idle
    /\ invocation' = [invocation EXCEPT ![p] =
           Responded("update_relation", <<r>>, [found |-> relState[r] = "live"])]
    /\ UNCHANGED <<authVars, storeVars, searchVars, textVars, entStamp, relStamp, responses, history,
                   atTime>>

\* The response of a tool other than create_entities reaches its caller
ToolReturn(p) ==
    /\ invocation[p].tool \notin {"none", "create_entities"}
    /\ invocation[p].pc = "return"
    /\ invocation' = [invocation EXCEPT ![p] = Idle]
    /\ UNCHANGED <<authVars, storeVars, searchVars, textVars, entStamp, relStamp, responses, history,
                   atTime>>

\* [...new Set(list)]: the first occurrence of each element, in order
RECURSIVE Dedup(_)
Dedup(list) ==
    IF list = <<>> THEN <<>>
    ELSE LET rest == Dedup(SubSeq(list, 1, Len(list) - 1))
             last == list[Len(list)]
         IN IF last \in Range(rest) THEN rest ELSE Append(rest, last)

\* list.filter(o => !others.includes(o))
Without_(list, others) ==
    LET Keep(o) == o \notin Range(others) IN SelectSeq(list, Keep)

\* add_observations: newObs = [...new Set([...existingObs, ...obs.contents])]
\* delete_observations: remainingObs = existingObs.filter(o => !del.observations.includes(o))
NewObservations(rec) ==
    IF rec.tool = "add_observations"
    THEN Dedup(rec.existing \o rec.input[1].contents)
    ELSE Without_(rec.existing, rec.input[1].contents)

\* add_observations and delete_observations, one item: const now = Date.now(); the read
\* statement is sent
ObservationsCall(p, tool, n, contents) ==
    /\ invocation[p] = Idle
    /\ invocation' = [invocation EXCEPT ![p] =
           [Idle EXCEPT !.tool = tool, !.pc = "read", !.i = 1,
                        !.input = <<[entityName |-> n, contents |-> contents]>>]]
    /\ UNCHANGED <<authVars, storeVars, searchVars, textVars, entStamp, relStamp, responses, history,
                   atTime>>

\* MATCH (e:Entity {name: $name}) WHERE e.validTo IS NULL RETURN e.observations ...
\* no row: results.push({ entityName, error: 'Entity not found' })
\* else existingObs = parseObservations(existing[0].observations); the embedding is asked for
ObservationsRead(p) ==
    /\ invocation[p].tool \in {"add_observations", "delete_observations"}
    /\ invocation[p].pc = "read"
    /\ LET n == invocation[p].input[1].entityName
       IN invocation' = [invocation EXCEPT ![p] =
              IF entState[n] = "live"
              THEN [@ EXCEPT !.existing = ParseObservations(obsState[n]).items,
                             !.pc = "embed"]
              ELSE [@ EXCEPT !.results = <<[kind |-> "error", changed |-> <<>>]>>,
                             !.pc = "return"]]
    /\ UNCHANGED <<authVars, storeVars, searchVars, textVars, entStamp, relStamp, responses, history,
                   atTime>>

\* generateEmbedding resolves; the write statement is sent
ObservationsEmbedded(p) ==
    /\ invocation[p].tool \in {"add_observations", "delete_observations"}
    /\ invocation[p].pc = "embed"
    /\ invocation' = [invocation EXCEPT ![p].pc = "write"]
    /\ UNCHANGED <<authVars, storeVars, searchVars, textVars, entStamp, relStamp, responses, history,
                   atTime>>

\* MATCH (e:Entity {name: $name}) WHERE e.validTo IS NULL
\* SET e.observations = $observations (JSON.stringify(newObs)), ...
\* results.push({ entityName, addedObservations | deletedCount })
ObservationsWrite(p) ==
    /\ invocation[p].tool \in {"add_observations", "delete_observations"}
    /\ invocation[p].pc = "write"
    /\ LET rec == invocation[p]
           n == rec.input[1].entityName
           newObs == NewObservations(rec)
       IN /\ obsState' = [obsState EXCEPT ![n] =
                 IF entState[n] = "live" THEN StringValue(JsonStringify(newObs)) ELSE @]
          /\ invocation' = [invocation EXCEPT ![p] =
                 [@ EXCEPT !.pc = "return",
                           !.results = <<[kind |-> "ok",
                                          changed |->
                                              IF rec.tool = "add_observations"
                                              THEN Without_(rec.input[1].contents, rec.existing)
                                              ELSE Without_(rec.existing, newObs)]>>]]
    /\ UNCHANGED <<authVars, entState, relState, searchVars, textVars, entStamp, relStamp, responses,
                   history, atTime>>

\* open_nodes: MATCH (e:Entity) WHERE e.name IN $names AND e.validTo IS NULL
OpenNodesEntities(names) == {n \in names : entState[n] = "live"}

\* open_nodes: ... WHERE from.name IN $names AND to.name IN $names AND r.validTo IS NULL
OpenNodesRelations(names) ==
    {r \in RelPairs : r[1] \in names /\ r[2] \in names /\ relState[r] = "live"}

\* search_nodes: WHERE toLower(e.name) CONTAINS toLower($query) AND e.validTo IS NULL,
\* for a query that every name contains
SearchNodesEntities == {n \in Names : entState[n] = "live"}

\* read_graph: MATCH (e:Entity) WHERE e.validTo IS NULL
ReadGraphEntities == {n \in Names : entState[n] = "live"}

\* read_graph: WHERE r.validTo IS NULL AND from.validTo IS NULL AND to.validTo IS NULL
\* AND from.name IN $names AND to.name IN $names
ReadGraphRelations ==
    {r \in RelPairs : /\ relState[r] = "live"
                      /\ entState[r[1]] = "live" /\ entState[r[2]] = "live"
                      /\ r[1] \in ReadGraphEntities /\ r[2] \in ReadGraphEntities}

\* get_graph_at_time(timestamp): entities with validFrom <= $timestamp AND
\* (validTo IS NULL OR validTo > $timestamp); relations with the same test on r, from, to
ValidAt(stamps, t) ==
    /\ stamps.validFrom # NoStamp
    /\ stamps.validFrom <= t
    /\ (stamps.validTo = NoStamp \/ stamps.validTo > t)

GetGraphAtTime(t) ==
    /\ atTime' = <<[timestamp |-> t,
                    entities |-> {n \in Names : ValidAt(entStamp[n], t)},
                    relations |-> {r \in RelPairs :
                                      /\ ValidAt(relStamp[r], t)
                                      /\ ValidAt(entStamp[r[1]], t)
                                      /\ ValidAt(entStamp[r[2]], t)}]>>
    /\ UNCHANGED <<authVars, storeVars, searchVars, textVars, entStamp, relStamp, invocation,
                   responses, history>>

\* Date.now() moves on
ClockTick ==
    /\ now < MaxClock
    /\ now' = now + 1
    /\ history' = [history EXCEPT ![now + 1] = Visible(entState, relState)]
    /\ UNCHANGED <<authVars, storeVars, textVars, pc, mode, optLimit, optRrfK, optMinSim, startTime,
                   vectorResults, keywordResults, rrfScores, sortedResults, entityNames,
                   entities, result, calls, entStamp, relStamp, invocation, responses,
                   atTime>>

\* Time passes between two calls
Quiet == \A p \in Procs : invocation[p] = Idle

TickBetweenCalls == Quiet /\ ClockTick

----------------------------------------------------------------------------
(* One entity from create_entities to the statements and helpers that read it *)

\* create_entities: e.observations = JSON.stringify(entity.observations)
WriteObservations ==
    /\ docStored.kind = "null"
    /\ docStored' = StringValue(JsonStringify(doc.observations))
    /\ UNCHANGED <<authVars, toolVars, storeVars, searchVars, doc, queryText, readBack, lexical>>

\* add_observations: parseObservations(existing[0].observations)
ReadObservations ==
    /\ docStored.kind # "null"
    /\ readBack = <<>>
    /\ readBack' = <<ParseObservations(docStored)>>
    /\ UNCHANGED <<authVars, toolVars, storeVars, searchVars, doc, queryText, docStored, lexical>>

\* The keyword statement of hybridSearchWithRRF meets the entity
KeywordMatch ==
    /\ docStored.kind # "null"
    /\ lexical = <<>>
    /\ \E o \in KeywordOutcomes(doc.name, docStored, queryText) : lexical' = <<o>>
    /\ UNCHANGED <<authVars, toolVars, storeVars, searchVars, doc, queryText, docStored, readBack>>

----------------------------------------------------------------------------
(* OAuth: signed state tokens and the signed approval cookie                    *)
(*                                                                              *)
(* Tokens, signatures and payloads are texts.  HMAC-SHA256 is a keyed digest of *)
(* DigestBytes bytes without collisions on the texts that occur (SHA-256 has    *)
(* 32 bytes).  Base64 is a character-wise code in which, as in the code's       *)
(* decoder, `+` is read like `-`.  The state data is a JSON array of strings    *)
(* standing for the AuthRequest, its first element the clientId.                *)

\* Length of a digest in bytes
DigestBytes == 1

Dot == "."

\* The secret of the deployment, and a secret chosen by somebody else
Secret == "COOKIE_ENCRYPTION_KEY"
OtherSecret == "another key of 32 characters"

\* b.toString(16): lower-case digits; verifySignature also reads upper-case ones
HexDigits == <<"0", "1", "2", "3", "4", "5", "6", "7", "8", "9", "a", "b", "c", "d", "e", "f">>
UpperHexDigits ==
    <<"0", "1", "2", "3", "4", "5", "6", "7", "8", "9", "A", "B", "C", "D", "E", "F">>

\* Number.parseInt(c, 16) of one digit; -1 where JS gives NaN
HexValue(c) ==
    IF \E i \in 1..16 : HexDigits[i] = c \/ UpperHexDigits[i] = c
    THEN (CHOOSE i \in 1..16 : HexDigits[i] = c \/ UpperHexDigits[i] = c) - 1
    ELSE -1

\* /^[0-9a-fA-F]+$/.test(signatureHex)
IsHex(text) == text # <<>> /\ \A i \in 1..Len(text) : HexValue(text[i]) >= 0

\* bytes.map(b => b.toString(16).padStart(2, "0")).join("")
ToHex(bytes) ==
    [i \in 1..(2 * Len(bytes)) |->
        IF i % 2 = 1 THEN HexDigits[(bytes[(i + 1) \div 2] \div 16) + 1]
        ELSE HexDigits[(bytes[i \div 2] % 16) + 1]]

\* signatureHex.match(/.{1,2}/g).map(byte => Number.parseInt(byte, 16))
FromHex(text) ==
    [i \in 1..(Len(text) \div 2) |-> 16 * HexValue(text[2 * i - 1]) + HexValue(text[2 * i])]

\* text.toUpperCase() of a hex text
UpperCase(text) ==
    [i \in 1..Len(text) |->
        IF HexValue(text[i]) >= 0 THEN UpperHexDigits[HexValue(text[i]) + 1] ELSE text[i]]

\* The characters of the JSON texts that occur, and their base64 code
PlainChars == <<"[", "]", Quote, ",", "a", "b", Backslash, "n", "u", "l">>
CodeChars == <<"W", "X", "I", "L", "Y", "-", "Q", "b", "d", "s">>

\* btoa(data).replace(/\+/g, '-').replace(/\//g, '_').replace(/=+$/, '')
UrlSafeBase64Encode(text) ==
    [i \in 1..Len(text) |-> CodeChars[CHOOSE j \in 1..Len(PlainChars) : PlainChars[j] = text[i]]]

\* encoded.replace(/-/g, '+').replace(/_/g, '/'), padding, atob: throws on a character
\* outside the alphabet
Base64Char(c) == IF c = "+" THEN "-" ELSE c

UrlSafeBase64Decode(encoded) ==
    IF \A i \in 1..Len(encoded) : \E j \in 1..Len(CodeChars) : CodeChars[j] = Base64Char(encoded[i])
    THEN [ok |-> TRUE,
          text |-> [i \in 1..Len(encoded) |->
                       PlainChars[CHOOSE j \in 1..Len(CodeChars) :
                                      CodeChars[j] = Base64Char(encoded[i])]]]
    ELSE [ok |-> FALSE, text |-> <<>>]

\* JSON.stringify(data) of the state data
StateText(data) == IF data.kind = "null" THEN ToText(data) ELSE JsonStringify(data.items)

\* encodeState(data)
EncodeState(data) == UrlSafeBase64Encode(StateText(data))

\* What a function returned, or the message of the Error it threw
Returned_(value) == [ok |-> TRUE, value |-> value, error |-> ""]
Thrown(message) == [ok |-> FALSE, value |-> NullValue, error |-> message]

\* decodeState(encoded): atob, TextDecoder, JSON.parse; any failure is rethrown as
\* "Could not decode state"
DecodeState(encoded) ==
    IF UrlSafeBase64Decode(encoded).ok /\ JsonParseText(UrlSafeBase64Decode(encoded).text).ok
    THEN Returned_(JsonParseText(UrlSafeBase64Decode(encoded).text).value)
    ELSE Thrown("Could not decode state")

\* The data that signState is called with: AuthRequests without and with a clientId
StateData == {ListValue(<<>>), ListValue(<<<<"a">>>>), ListValue(<<<<"b">>, <<"a", Quote>>>>)}

\* The approved-client lists of the cookie
ClientIds == {<<"a">>, <<"b">>}
ClientLists == {<<>>, <<<<"a">>>>, <<<<"a">>, <<"b">>>>}

\* A text that is no base64, one that is base64 of no JSON, and the JSON text `null`
NotBase64 == <<"W", "!">>
NotJson == <<"W", "W">>
NullText == <<"n", "u", "l", "l">>

\* The texts of which a digest is taken
MacInputs ==
    <<EncodeState(ListValue(<<>>)), EncodeState(ListValue(<<<<"a">>>>)),
      EncodeState(ListValue(<<<<"b">>, <<"a", Quote>>>>)),
      <<"W", "X", "+">>, NotBase64, NotJson,
      JsonStringify(<<>>), JsonStringify(<<<<"a">>>>), JsonStringify(<<<<"a">>, <<"b">>>>),
      NullText, <<"[", "[">>, JsonStringify(<<<<"b">>>>)>>

\* crypto.subtle.sign("HMAC", key, data): a digest that differs for different keys and
\* for different texts
Hmac(secret, text) ==
    [i \in 1..DigestBytes |->
        16 * (IF secret = Secret THEN 10 ELSE 11)
        + (IF \E j \in 1..Len(MacInputs) : MacInputs[j] = text
           THEN CHOOSE j \in 1..Len(MacInputs) : MacInputs[j] = text
           ELSE 0)]

\* signData(key, data)
SignData(secret, text) == ToHex(Hmac(secret, text))

\* Variant: only the format of the signature is looked at
VerifySignature_FormatOnly(secret, signatureHex, text) ==
    /\ IsHex(signatureHex)
    /\ Len(signatureHex) = 2 * DigestBytes

\* verifySignature(key, signatureHex, data)
VerifySignature(secret, signatureHex, text) ==
    /\ IsHex(signatureHex)
    /\ Len(signatureHex) = 2 * DigestBytes
    /\ FromHex(signatureHex) = Hmac(secret, text)

\* signedState.split('.'), cookieValue.split(".")
RECURSIVE SplitFrom(_, _, _)
SplitFrom(text, i, part) ==
    IF i > Len(text) THEN <<part>>
    ELSE IF text[i] = Dot THEN <<part>> \o SplitFrom(text, i + 1, <<>>)
    ELSE SplitFrom(text, i + 1, Append(part, text[i]))

Split(text) == SplitFrom(text, 1, <<>>)

\* parts.join('.')
RECURSIVE Join(_)
Join(parts) ==
    IF Len(parts) = 0 THEN <<>>
    ELSE IF Len(parts) = 1 THEN parts[1]
    ELSE parts[1] \o <<Dot>> \o Join(Tail(parts))

\* signState(data, secret): `${signature}.${encoded}`
SignState(data, secret) ==
    SignData(secret, EncodeState(data)) \o <<Dot>> \o EncodeState(data)

\* verifyAndDecodeState(signedState, secret)
VerifyAndDecodeState(signedState, secret) ==
    LET parts == Split(signedState)
    IN IF Len(parts) # 2 THEN Thrown("Invalid state format")
       ELSE IF ~VerifySignature(secret, parts[1], parts[2])
       THEN Thrown("State signature verification failed")
       ELSE DecodeState(parts[2])

\* What somebody who has seen the token of `data` can put between the dots of a token:
\* its signature in either case, cut short or with a character that is no digit,
\* signatures made with another secret, and payloads
TokenParts(data) ==
    LET signature == SignData(Secret, EncodeState(data))
        payloads == {EncodeState(d) : d \in StateData} \cup {<<"W", "X", "+">>, NotBase64, NotJson}
    IN {signature, UpperCase(signature), SubSeq(signature, 1, Len(signature) - 1),
        [signature EXCEPT ![1] = "z"], <<>>}
       \cup {SignData(OtherSecret, t) : t \in payloads}
       \cup payloads

\* Longest token, in parts
MaxParts == 3

Tokens(data) ==
    {Join(parts) : parts \in UNION {[1..n -> TokenParts(data)] : n \in 1..MaxParts}}

\* The authorization server signs the state
IssueState(data) ==
    /\ issued = <<>>
    /\ issued' = <<data>>
    /\ UNCHANGED <<storeVars, searchVars, textVars, toolVars, presented, verdict, authorize,
                   callback>>

\* A token comes back and is verified
VerifyState ==
    /\ issued # <<>>
    /\ verdict = <<>>
    /\ \E token \in Tokens(issued[1]) :
           /\ presented' = token
           /\ verdict' = <<VerifyAndDecodeState(token, Secret)>>
    /\ UNCHANGED <<storeVars, searchVars, textVars, toolVars, issued, authorize, callback>>

\* The cookie that remembers the approved clients
CookieName == "mcp-approved-clients"

Cookie(name, value) == [name |-> name, value |-> value]

\* parseRedirectApproval: `${signature}.${urlSafeBase64Encode(payload)}`, the signature
\* taken over the payload itself
CookieValue(list, secret) ==
    SignData(secret, JsonStringify(list)) \o <<Dot>> \o UrlSafeBase64Encode(JsonStringify(list))

\* getApprovedClientsFromCookie returned null
NoClients == [ok |-> FALSE, clients |-> <<>>]

\* getApprovedClientsFromCookie(cookieHeader, secret); the header is the sequence of its
\* cookies, empty when there is none
GetApprovedClientsFromCookie(header, secret) ==
    IF header = <<>> THEN NoClients
    ELSE IF ~\E i \in 1..Len(header) : header[i].name = CookieName THEN NoClients
    ELSE LET first == CHOOSE i \in 1..Len(header) :
                          /\ header[i].name = CookieName
                          /\ \A j \in 1..(i - 1) : header[j].name # CookieName
             parts == Split(header[first].value)
         IN IF Len(parts) # 2 THEN NoClients
            ELSE LET payload == UrlSafeBase64Decode(parts[2])
                 IN IF ~payload.ok THEN NoClients
                    ELSE IF ~VerifySignature(secret, parts[1], payload.text) THEN NoClients
                    ELSE IF ~JsonParseText(payload.text).ok THEN NoClients
                    ELSE IF JsonParseText(payload.text).value.kind # "list" THEN NoClients
                    ELSE [ok |-> TRUE, clients |-> JsonParseText(payload.text).value.items]

\* Variant: any cookie that verifies approves every client
ClientIdAlreadyApproved_AnyList(header, clientId, secret) ==
    /\ clientId # <<>>
    /\ GetApprovedClientsFromCookie(header, secret).ok

\* clientIdAlreadyApproved(request, clientId, cookieSecret)
ClientIdAlreadyApproved(header, clientId, secret) ==
    /\ clientId # <<>>
    /\ GetApprovedClientsFromCookie(header, secret).ok
    /\ clientId \in Range(GetApprovedClientsFromCookie(header, secret).clients)

\* state?.oauthReqInfo?.clientId, oauthReqInfo.clientId: the first element of the data;
\* the empty text where there is none
ClientIdOf(value) ==
    IF value.kind = "list" /\ value.items # <<>> THEN value.items[1] ELSE <<>>

\* What can stand between the dots of a cookie value: signatures of the server over
\* lists and over texts that are no list, one of them in upper case, a signature made
\* with another secret, and payloads
CookieParts ==
    {SignData(Secret, JsonStringify(l)) : l \in ClientLists}
    \cup {UpperCase(SignData(Secret, JsonStringify(<<<<"a">>>>)))}
    \cup {SignData(OtherSecret, JsonStringify(<<<<"a">>>>))}
    \cup {SignData(Secret, NullText), SignData(Secret, <<"[", "[">>), <<>>}
    \cup {UrlSafeBase64Encode(JsonStringify(l)) : l \in ClientLists}
    \cup {UrlSafeBase64Encode(NullText), NotBase64, NotJson}

CookieValues ==
    {Join(parts) : parts \in UNION {[1..n -> CookieParts] : n \in 1..MaxParts}}

\* The Cookie headers of a request to GET /authorize: none, the approval cookie alone,
\* another cookie alone, and the approval cookie behind another cookie or behind a
\* broken approval cookie
CookieHeaders(jar) ==
    {<<>>}
    \cup {<<Cookie(CookieName, v)>> : v \in CookieValues \cup Range(jar)}
    \cup {<<Cookie("session", CookieValue(l, Secret))>> : l \in ClientLists}
    \cup {<<Cookie("session", NotJson), Cookie(CookieName, CookieValue(l, Secret))>> :
              l \in ClientLists}
    \cup {<<Cookie(CookieName, NotBase64), Cookie(CookieName, CookieValue(l, Secret))>> :
              l \in ClientLists}

\* The state fields of the approval form, and the Cookie headers of its POST
FormStates ==
    {SignState(d, Secret) : d \in StateData} \cup {SignState(d, OtherSecret) : d \in StateData}

FormHeaders ==
    {<<>>}
    \cup {<<Cookie(CookieName, CookieValue(l, Secret))>> : l \in ClientLists}
    \cup {<<Cookie(CookieName, CookieValue(<<<<"a">>>>, OtherSecret))>>}

\* No request to /authorize yet
AuthorizeIdle ==
    [pc |-> "idle", post |-> "none", jar |-> <<>>, clientId |-> <<>>, header |-> <<>>,
     response |-> "none"]

\* POST /authorize: parseRedirectApproval throws unless the form's state verifies and
\* carries a clientId; otherwise the redirect to GitHub sets the cookie of the approved
\* clients, the new one added
ApprovalPosted ==
    /\ authorize.pc = "idle"
    /\ authorize.post = "none"
    /\ \E token \in FormStates, header \in FormHeaders :
           LET state == VerifyAndDecodeState(token, Secret)
               clientId == IF state.ok THEN ClientIdOf(state.value) ELSE <<>>
               existing == GetApprovedClientsFromCookie(header, Secret).clients
           IN authorize' =
                  IF clientId = <<>> THEN [authorize EXCEPT !.post = "thrown"]
                  ELSE [authorize EXCEPT
                            !.post = "redirect",
                            !.jar = <<CookieValue(Dedup(Append(existing, clientId)), Secret)>>]
    /\ UNCHANGED <<storeVars, searchVars, textVars, toolVars, issued, presented, verdict,
                   callback>>

\* GET /authorize: 400 without a clientId, the redirect to GitHub for an approved
\* client, the approval dialog otherwise
AuthorizeResponse(clientId, header) ==
    IF clientId = <<>> THEN "Invalid request"
    ELSE IF ClientIdAlreadyApproved(header, clientId, Secret) THEN "redirect"
    ELSE "dialog"

AuthorizeRequested ==
    /\ authorize.pc = "idle"
    /\ \E clientId \in {<<>>} \cup ClientIds, header \in CookieHeaders(authorize.jar) :
           authorize' = [authorize EXCEPT
                             !.pc = "done",
                             !.clientId = clientId,
                             !.header = header,
                             !.response = AuthorizeResponse(clientId, header)]
    /\ UNCHANGED <<storeVars, searchVars, textVars, toolVars, issued, presented, verdict,
                   callback>>

\* A Response of the callback
TextResponse(text, status) == [text |-> text, status |-> status]

\* Variant: the state is not asked for its clientId
HasClientId_Unchecked(value) == TRUE

\* !oauthReqInfo.clientId is false
HasClientId(value) == ClientIdOf(value) # <<>>

\* GET /callback up to the token exchange: the error response of the first check that
\* fails, or none
CallbackCheck(error, state, code) ==
    IF error THEN <<TextResponse("Authorization failed", 400)>>
    ELSE IF state = <<>> THEN <<TextResponse("Missing state parameter", 400)>>
    ELSE IF ~VerifyAndDecodeState(state, Secret).ok
    THEN <<TextResponse("Invalid state parameter", 400)>>
    ELSE IF ~HasClientId(VerifyAndDecodeState(state, Secret).value)
    THEN <<TextResponse("Invalid state", 400)>>
    ELSE IF ~code THEN <<TextResponse("Missing authorization code", 400)>>
    ELSE <<>>

\* The state parameters of a callback: none, and tokens of one or two parts
CallbackStates(data) ==
    {<<>>} \cup TokenParts(data)
    \cup {Join(<<a, b>>) : a \in TokenParts(data), b \in TokenParts(data)}

\* How the token exchange with GitHub can end, and fetchUpstreamAuthToken's error
\* response for it
ExchangeOutcomes == {"token", "timeout", "network error", "not ok", "bad format", "no token"}

FetchUpstreamAuthToken(outcome) ==
    CASE outcome = "token" -> <<>>
      [] outcome = "timeout" -> <<TextResponse("Token exchange timed out", 504)>>
      [] outcome = "network error" -> <<TextResponse("Token exchange failed", 502)>>
      [] outcome = "not ok" -> <<TextResponse("Failed to fetch access token", 500)>>
      [] outcome = "bad format" -> <<TextResponse("Invalid token response format", 500)>>
      [] outcome = "no token" -> <<TextResponse("Missing access token", 400)>>

\* How the lookup of the GitHub user can end, and the handler's error response for it
UserOutcomes == {"user", "no data", "throws"}

UserResponse(outcome) ==
    CASE outcome = "user" -> <<>>
      [] outcome = "no data" -> <<TextResponse("Failed to fetch user info", 500)>>
      [] outcome = "throws" -> <<TextResponse("Failed to authenticate with GitHub", 500)>>

\* No request to /callback yet
CallbackIdle ==
    [pc |-> "idle", error |-> FALSE, state |-> <<>>, code |-> FALSE, exchange |-> "none",
     user |-> "none", completed |-> FALSE, response |-> <<>>]

\* GET /callback arrives: the checks of the request, then the token exchange is awaited
CallbackArrives ==
    /\ callback.pc = "idle"
    /\ issued # <<>>
    /\ \E error \in BOOLEAN, state \in CallbackStates(issued[1]), code \in BOOLEAN :
           callback' = [callback EXCEPT
                            !.error = error,
                            !.state = state,
                            !.code = code,
                            !.response = CallbackCheck(error, state, code),
                            !.pc = IF CallbackCheck(error, state, code) = <<>>
                                   THEN "exchange" ELSE "done"]
    /\ UNCHANGED <<storeVars, searchVars, textVars, toolVars, issued, presented, verdict,
                   authorize>>

\* fetchUpstreamAuthToken returns: if (errResponse) return errResponse, else the user
\* lookup is awaited
ExchangeReturns ==
    /\ callback.pc = "exchange"
    /\ \E outcome \in ExchangeOutcomes :
           callback' = [callback EXCEPT
                            !.exchange = outcome,
                            !.response = FetchUpstreamAuthToken(outcome),
                            !.pc = IF FetchUpstreamAuthToken(outcome) = <<>>
                                   THEN "user" ELSE "done"]
    /\ UNCHANGED <<storeVars, searchVars, textVars, toolVars, issued, presented, verdict,
                   authorize>>

\* getAuthenticated returns or throws: an error response, or completeAuthorization is
\* called
UserReturns ==
    /\ callback.pc = "user"
    /\ \E outcome \in UserOutcomes :
           callback' = [callback EXCEPT
                            !.user = outcome,
                            !.response = UserResponse(outcome),
                            !.completed = (UserResponse(outcome) = <<>>),
                            !.pc = IF UserResponse(outcome) = <<>> THEN "complete" ELSE "done"]
    /\ UNCHANGED <<storeVars, searchVars, textVars, toolVars, issued, presented, verdict,
                   authorize>>

\* completeAuthorization returns: Response.redirect(redirectTo)
CompleteReturns ==
    /\ callback.pc = "complete"
    /\ callback' = [callback EXCEPT
                        !.response = <<TextResponse("redirect", 302)>>,
                        !.pc = "done"]
    /\ UNCHANGED <<storeVars, searchVars, textVars, toolVars, issued, presented, verdict,
                   authorize>>

----------------------------------------------------------------------------
(* Specifications *)

InitSearch ==
    /\ pc = "idle"
    /\ mode = "hybrid"
    /\ optLimit = 0
    /\ optRrfK = 0
    /\ optMinSim = 0
    /\ now = 0
    /\ startTime = 0
    /\ vectorResults = <<>>
    /\ keywordResults = <<>>
    /\ rrfScores = <<>>
    /\ sortedResults = <<>>
    /\ entityNames = <<>>
    /\ entities = <<>>
    /\ result = <<>>
    /\ calls = NoCalls

\* No entity is being written or matched
InitText ==
    /\ doc = [name |-> <<>>, observations |-> <<>>]
    /\ queryText = <<>>
    /\ docStored = NullValue
    /\ readBack = <<>>
    /\ lexical = <<>>

\* No OAuth request has been made
InitAuth ==
    /\ issued = <<>>
    /\ presented = <<>>
    /\ verdict = <<>>
    /\ authorize = AuthorizeIdle
    /\ callback = CallbackIdle

\* No tool has been called
InitTools ==
    /\ entStamp = [n \in Names |-> NoStamps]
    /\ relStamp = [p \in RelPairs |-> NoStamps]
    /\ invocation = [p \in Procs |-> Idle]
    /\ responses = {}
    /\ history = [t \in 0..MaxClock |-> [entities |-> {}, relations |-> {}]]
    /\ atTime = <<>>

\* An empty graph
Init ==
    /\ entState = [n \in Names |-> "absent"]
    /\ relState = [p \in RelPairs |-> "absent"]
    /\ obsState = [n \in Names |-> NullValue]
    /\ InitSearch
    /\ InitTools
    /\ InitAuth
    /\ InitText

Next ==
    \/ \E l \in LimitOptions, k \in RrfKOptions, m \in HybridMinSimOptions :
           StartHybrid(l, k, m)
    \/ VectorReturn
    \/ KeywordReturn
    \/ EntitiesReturn
    \/ RelationsReturn
    \/ \E l \in LimitOptions, m \in MinSimOptions : StartVector(l, m)
    \/ VectorOnlyReturn
    \/ QueryFails
    \/ Tick
    \/ \E n \in WriterNames : CreateEntity(n)
    \/ \E p \in RelPairs : CreateRelation(p)
    \/ \E ns \in (SUBSET WriterNames) \ {{}} : DeleteEntities(ns)
    \/ \E p \in RelPairs : DeleteRelation(p)

Spec == Init /\ [][Next]_vars

\* Values of the observations property that a hydration query can meet: written by the
\* tools, missing, cut short, empty
StoredObservations ==
    {StringValue(JsonStringify(<<<<"a", Quote>>, <<"b">>>>)),
     NullValue,
     StringValue(<<"[", Quote, "a">>),
     StringValue(<<>>)}

\* Two visible entities and a relation between them, no writer
InitHydration ==
    /\ entState = [n \in Names |-> IF n \in WriterNames THEN "live" ELSE "absent"]
    /\ relState = [p \in RelPairs |-> "live"]
    /\ obsState \in {f \in [Names -> StoredObservations] :
                         \A n \in Names \ WriterNames : f[n] = NullValue}
    /\ InitSearch
    /\ InitTools
    /\ InitAuth
    /\ InitText

NextHydration ==
    \/ \E l \in LimitOptions, k \in RrfKOptions : StartHybrid(l, k, 0)
    \/ VectorReturn
    \/ KeywordReturn
    \/ \E l \in LimitOptions, m \in MinSimOptions : StartVector(l, m)
    \/ VectorOnlyReturn
    \/ EntitiesReturn
    \/ RelationsReturn

SpecHydration == InitHydration /\ [][NextHydration]_vars

\* One entity, its observations and a query text, all chosen freely
InitEntityText ==
    /\ entState = [n \in Names |-> "absent"]
    /\ relState = [p \in RelPairs |-> "absent"]
    /\ obsState = [n \in Names |-> NullValue]
    /\ InitSearch
    /\ InitTools
    /\ InitAuth
    /\ doc \in [name : EntityNameTexts, observations : ObsLists]
    /\ queryText \in QueryTexts
    /\ docStored = NullValue
    /\ readBack = <<>>
    /\ lexical = <<>>

NextText ==
    \/ WriteObservations
    \/ ReadObservations
    \/ KeywordMatch

SpecText == InitEntityText /\ [][NextText]_vars

\* The fusion alone, over a quiescent graph of four entities
InitFusion ==
    /\ entState = [n \in Names |-> "live"]
    /\ relState = [p \in RelPairs |-> "absent"]
    /\ obsState = [n \in Names |-> StringValue(JsonStringify(<<>>))]
    /\ InitSearch
    /\ InitTools
    /\ InitAuth
    /\ InitText

NextFusion ==
    \/ \E l \in LimitOptions, k \in RrfKOptions : StartHybrid(l, k, 0)
    \/ VectorReturn
    \/ KeywordReturn

SpecFusion == InitFusion /\ [][NextFusion]_vars

\* Two concurrent callers of create_entities on an empty graph, no failures: one passes
\* batches and the other single entities
NextUpsert ==
    \/ \E input \in CreateInputs : CreateEntitiesCall(1, input)
    \/ \E input \in SingleInputs : CreateEntitiesCall(2, input)
    \/ \E p \in Procs : EmbeddingReturn(p)
    \/ \E p \in Procs : MergeReturn(p)
    \/ \E p \in Procs : CreateEntitiesReturn(p)
    \/ ClockTick

SpecUpsert == Init /\ [][NextUpsert]_vars

\* One caller of create_entities, whose embedding and store requests may fail
NextBatch ==
    \/ \E input \in CreateInputs : CreateEntitiesCall(1, input)
    \/ \E m \in Messages : CreateEntitiesFails(1, m)
    \/ \E m \in Messages : SemanticSearchFails(m)
    \/ EmbeddingReturn(1)
    \/ \E m \in Messages : EntityFails(1, m)
    \/ MergeReturn(1)
    \/ CreateEntitiesReturn(1)

SpecBatch == Init /\ [][NextBatch]_vars


\* A history of calls made one after the other, and queries about instants that are over
NextHistory ==
    \/ \E input \in SingleInputs : CreateEntitiesCall(1, input)
    \/ EmbeddingReturn(1)
    \/ MergeReturn(1)
    \/ CreateEntitiesReturn(1)
    \/ \E ns \in (SUBSET WriterNames) \ {{}} : DeleteEntitiesCall(1, ns)
    \/ \E r \in RelPairs : CreateRelationsCall(1, r)
    \/ ToolReturn(1)
    \/ TickBetweenCalls
    \/ \E t \in 0..MaxClock : t < now /\ GetGraphAtTime(t)

SpecHistory == Init /\ [][NextHistory]_vars

\* Contents passed to add_observations and delete_observations
ObsContents == {<<<<"b">>>>, <<<<"a">>, <<"a", Quote>>>>}

\* Two callers of all the writing tools, their statements interleaved
NextStore ==
    \/ \E p \in Procs, input \in SingleInputs : CreateEntitiesCall(p, input)
    \/ \E p \in Procs : EmbeddingReturn(p)
    \/ \E p \in Procs : MergeReturn(p)
    \/ \E p \in Procs : CreateEntitiesReturn(p)
    \/ \E p \in Procs, ns \in (SUBSET WriterNames) \ {{}} : DeleteEntitiesCall(p, ns)
    \/ \E p \in Procs, r \in RelPairs : CreateRelationsCall(p, r)
    \/ \E p \in Procs, r \in RelPairs : DeleteRelationsCall(p, r)
    \/ \E p \in Procs, r \in RelPairs : UpdateRelationCall(p, r)
    \/ \E p \in Procs, n \in WriterNames : ObservationsCall(p, "add_observations", n, <<<<"b">>>>)
    \/ \E p \in Procs, n \in WriterNames :
           ObservationsCall(p, "delete_observations", n, <<<<"a">>>>)
    \/ \E p \in Procs : ObservationsRead(p)
    \/ \E p \in Procs : ObservationsEmbedded(p)
    \/ \E p \in Procs : ObservationsWrite(p)
    \/ \E p \in Procs : ToolReturn(p)

SpecStore == Init /\ [][NextStore]_vars

\* One visible entity with one observation
InitObservations ==
    /\ entState = [n \in Names |-> IF n = "A" THEN "live" ELSE "absent"]
    /\ relState = [p \in RelPairs |-> "absent"]
    /\ obsState = [n \in Names |->
           IF n = "A" THEN StringValue(JsonStringify(<<<<"a">>>>)) ELSE NullValue]
    /\ InitSearch
    /\ InitText
    /\ InitAuth
    /\ entStamp = [n \in Names |->
           IF n = "A" THEN [createdAt |-> 0, validFrom |-> 0, validTo |-> NoStamp]
           ELSE NoStamps]
    /\ relStamp = [p \in RelPairs |-> NoStamps]
    /\ invocation = [p \in Procs |-> Idle]
    /\ responses = {}
    /\ history = [t \in 0..MaxClock |-> [entities |-> {}, relations |-> {}]]
    /\ atTime = <<>>

\* Two callers of add_observations on that entity
NextObservations ==
    \/ \E p \in Procs, c \in ObsContents : ObservationsCall(p, "add_observations", "A", c)
    \/ \E p \in Procs : ObservationsRead(p)
    \/ \E p \in Procs : ObservationsEmbedded(p)
    \/ \E p \in Procs : ObservationsWrite(p)
    \/ \E p \in Procs : ToolReturn(p)

SpecObservations == InitObservations /\ [][NextObservations]_vars

\* A state is signed, and some token is presented for it
NextState ==
    \/ \E d \in StateData : IssueState(d)
    \/ VerifyState

SpecState == Init /\ [][NextState]_vars

\* The approval form is posted, and GET /authorize is requested
NextAuthorize ==
    \/ ApprovalPosted
    \/ AuthorizeRequested

SpecAuthorize == Init /\ [][NextAuthorize]_vars

\* A state is signed for the redirect to GitHub, and a callback is handled
NextCallback ==
    \/ \E d \in StateData : IssueState(d)
    \/ CallbackArrives
    \/ ExchangeReturns
    \/ UserReturns
    \/ CompleteReturns

SpecCallback == Init /\ [][NextCallback]_vars

----------------------------------------------------------------------------
(* Vocabulary of the properties *)

\* The fusion of this invocation has run
FusionDone == mode = "hybrid" /\ pc \in {"entities", "relations", "done"}

VectorIds == [i \in 1..Len(vectorResults) |-> vectorResults[i].id]
KeywordIds == [i \in 1..Len(keywordResults) |-> keywordResults[i].id]

InVector(id) == id \in Range(VectorIds)
InKeyword(id) == id \in Range(KeywordIds)

\* Zero-based rank of id in a list of identifiers
RankOf(ids, id) == (CHOOSE i \in 1..Len(ids) : ids[i] = id) - 1

K == EffRrfK(optRrfK)

ScoreOf(id) == MapGet(rrfScores, id).score

\* Order of first encounter: the vector list, then the identifiers only the keyword list has
Encounter == VectorIds \o SelectSeq(KeywordIds, LAMBDA x : ~InVector(x))

\* a is ranked before b: greater fused score, or equal score and encountered first
Precedes(a, b) ==
    \/ FracLT(ScoreOf(b), ScoreOf(a))
    \/ /\ FracEq(ScoreOf(a), ScoreOf(b))
       /\ RankOf(Encounter, a) < RankOf(Encounter, b)

\* A list of rows without the row of id
Without(rows, id) == SelectSeq(rows, LAMBDA r : r.id # id)

----------------------------------------------------------------------------
(* C1..C4: Reciprocal Rank Fusion (checked under SpecFusion) *)

\* C1: the fused score of an identifier at zero-based rank i of the vector list and j of
\* the keyword list is 1/(k+i+1) + 1/(k+j+1); of an identifier in one list only, at rank
\* i, it is 1/(k+i+1); the fused identifiers are those of the two lists. The raw
\* vectorScore and bm25Score values do not enter.
C1_FusedScoreByRank ==
    FusionDone =>
        /\ Range(IdsOf(rrfScores)) = Range(VectorIds) \cup Range(KeywordIds)
        /\ \A id \in Range(IdsOf(rrfScores)) :
              LET i == RankOf(VectorIds, id)
                  j == RankOf(KeywordIds, id)
              IN /\ (InVector(id) /\ InKeyword(id)) =>
                        FracEq(ScoreOf(id),
                               FracAdd(Frac(1, K + i + 1), Frac(1, K + j + 1)))
                 /\ (InVector(id) /\ ~InKeyword(id)) =>
                        FracEq(ScoreOf(id), Frac(1, K + i + 1))
                 /\ (~InVector(id) /\ InKeyword(id)) =>
                        FracEq(ScoreOf(id), Frac(1, K + j + 1))

\* C1 witness: a fusion with an identifier in both lists at different ranks, one in the
\* vector list only, one in the keyword list only, and two different raw vector scores
C1_Witness ==
    /\ FusionDone
    /\ \E id \in Names :
          InVector(id) /\ InKeyword(id) /\ RankOf(VectorIds, id) # RankOf(KeywordIds, id)
    /\ \E id \in Names : InVector(id) /\ ~InKeyword(id)
    /\ \E id \in Names : ~InVector(id) /\ InKeyword(id)
    /\ \E a, b \in 1..Len(vectorResults) :
          vectorResults[a].vectorScore # vectorResults[b].vectorScore

\* C2: for k > 0, an identifier in both lists has a fused score strictly greater than
\* the one it gets from the same inputs with its row taken out of either list
C2_BothListsBoost ==
    (FusionDone /\ K > 0) =>
        \A id \in Names :
            (InVector(id) /\ InKeyword(id)) =>
                /\ FracLT(MapGet(RrfScores(vectorResults, Without(keywordResults, id), K),
                                 id).score,
                          ScoreOf(id))
                /\ FracLT(MapGet(RrfScores(Without(vectorResults, id), keywordResults, K),
                                 id).score,
                          ScoreOf(id))

\* C2 witness: a fusion with k > 0 and an identifier in both lists
C2_Witness ==
    /\ FusionDone
    /\ K > 0
    /\ \E id \in Names : InVector(id) /\ InKeyword(id)

\* C3: the fused list is in descending order of fused score, equal scores in order of
\* first encounter (vector list first, then keyword-only identifiers), and it is the top
\* `limit` of all fused identifiers in that order; this fixes the list completely, so the
\* same lists and k give the same list
C3_FusedOrder ==
    FusionDone =>
        /\ Len(sortedResults) = Min(EffLimit(optLimit), Len(Encounter))
        /\ Range(IdsOf(sortedResults)) \subseteq Range(Encounter)
        /\ \A p, q \in 1..Len(sortedResults) :
              p < q => Precedes(sortedResults[p].id, sortedResults[q].id)
        /\ \A id \in Range(Encounter) \ Range(IdsOf(sortedResults)) :
              \A p \in 1..Len(sortedResults) : Precedes(sortedResults[p].id, id)

\* C3 witness: a tie between an identifier of both lists and one that only the keyword
\* list has, both in the fused list
C3_Witness ==
    /\ FusionDone
    /\ \E p, q \in 1..Len(sortedResults) :
          /\ p < q
          /\ FracEq(sortedResults[p].score, sortedResults[q].score)
          /\ InVector(sortedResults[p].id) /\ InKeyword(sortedResults[p].id)
          /\ ~InVector(sortedResults[q].id)

\* C4 as claimed: vector list [A, B, C], keyword list [B, D], k = 60: the fused order
\* is B, A, D, C (cut to the limit), A and D have the same fused score, C a lower one
C4_ScenarioAsClaimed ==
    (/\ FusionDone
     /\ VectorIds = <<"A", "B", "C">>
     /\ KeywordIds = <<"B", "D">>
     /\ K = 60) =>
        /\ IdsOf(sortedResults) = Slice(<<"B", "A", "D", "C">>, EffLimit(optLimit))
        /\ FracLT(ScoreOf("A"), ScoreOf("B"))
        /\ FracEq(ScoreOf("A"), ScoreOf("D"))
        /\ FracLT(ScoreOf("C"), ScoreOf("A"))
        /\ FracLT(ScoreOf("C"), ScoreOf("D"))

\* C4 amended: vector list [A, B, C], keyword list [B, D], k = 60: the fused order is
\* B, A, D, C (cut to the limit) with strictly decreasing fused scores
\* B = 1/62 + 1/61 > A = 1/61 > D = 1/62 > C = 1/63; A and D do not tie
C4_Scenario ==
    (/\ FusionDone
     /\ VectorIds = <<"A", "B", "C">>
     /\ KeywordIds = <<"B", "D">>
     /\ K = 60) =>
        /\ IdsOf(sortedResults) = Slice(<<"B", "A", "D", "C">>, EffLimit(optLimit))
        /\ FracEq(ScoreOf("B"), FracAdd(Frac(1, 62), Frac(1, 61)))
        /\ FracEq(ScoreOf("A"), Frac(1, 61))
        /\ FracEq(ScoreOf("D"), Frac(1, 62))
        /\ FracEq(ScoreOf("C"), Frac(1, 63))
        /\ FracLT(ScoreOf("A"), ScoreOf("B"))
        /\ FracLT(ScoreOf("D"), ScoreOf("A"))
        /\ FracLT(ScoreOf("C"), ScoreOf("D"))

\* C4 witness: the scenario, fused without truncation
C4_Witness ==
    /\ FusionDone
    /\ VectorIds = <<"A", "B", "C">>
    /\ KeywordIds = <<"B", "D">>
    /\ K = 60
    /\ IdsOf(sortedResults) = <<"B", "A", "D", "C">>

----------------------------------------------------------------------------
(* C5..C10: limits, hydration and the empty result (checked under Spec) *)

Returned == pc = "done" /\ Len(result) = 1

ReturnedNames == [i \in 1..Len(result[1].entities) |-> result[1].entities[i].name]

IsEmptyResult(r) ==
    /\ r.entities = <<>>
    /\ r.relations = <<>>
    /\ r.total = 0

\* C5: a hybrid search called with limit = 0 returns the empty result and issues neither
\* hydration query
C5_LimitZeroIsEmpty ==
    (mode = "hybrid" /\ optLimit = 0) =>
        /\ calls["entities"] = 0
        /\ calls["relations"] = 0
        /\ Returned => IsEmptyResult(result[1])

\* C6: the entities of a hybrid search result are in the relative order of their
\* identifiers in the fused, truncated list
C6_EntitiesInFusedOrder ==
    (Returned /\ mode = "hybrid") =>
        \A p, q \in 1..Len(ReturnedNames) :
            p < q => RankOf(IdsOf(sortedResults), ReturnedNames[p])
                        < RankOf(IdsOf(sortedResults), ReturnedNames[q])

\* C7: a search result has at most as many entities as the limit the caller asked for
C7_AtMostLimitEntities ==
    Returned => Len(result[1].entities) <= optLimit

\* C8: both endpoints of every relation of a search result are entities of that result
C8_RelationsAmongReturnedEntities ==
    Returned =>
        \A i \in 1..Len(result[1].relations) :
            /\ result[1].relations[i].from \in Range(ReturnedNames)
            /\ result[1].relations[i].to \in Range(ReturnedNames)

\* The identifiers a search hydrates: the fused, truncated list (the vector rows in
\* vectorSearch)
CandidateIds == IF mode = "hybrid" THEN IdsOf(sortedResults) ELSE VectorIds

\* C9: the entity rows a search gets are exactly the entities that are visible (validTo
\* absent) when the hydration statement runs and whose name is among the candidate
\* identifiers, each once; the result returns exactly those rows
C9_HydratesVisibleCandidates ==
    [][/\ (pc = "entities" /\ pc' = "relations") =>
              /\ {entities'[i].name : i \in 1..Len(entities')}
                    = {n \in Range(CandidateIds) : entState[n] = "live"}
              /\ \A i, j \in 1..Len(entities') :
                    i # j => entities'[i].name # entities'[j].name
       /\ (pc = "relations" /\ pc' = "done") =>
              [i \in 1..Len(result'[1].entities) |-> result'[1].entities[i].name]
                  = [i \in 1..Len(entities) |-> entities[i].name]
      ]_vars

\* C9 witness: a search whose candidates include a soft-deleted entity, which the
\* hydration left out while returning another candidate
C9_Witness ==
    /\ Returned
    /\ result[1].entities # <<>>
    /\ \E n \in Range(CandidateIds) : n \notin Range(ReturnedNames)

\* C10: once the fusion has produced an empty list (as it does when both ranker lists
\* are empty) the hybrid search has returned {entities: [], relations: [], total: 0}
\* with timeTaken >= 0, and no hydration query was issued
C10_EmptyFusionShortCircuits ==
    /\ (FusionDone /\ sortedResults = <<>>) =>
          /\ Returned
          /\ IsEmptyResult(result[1])
          /\ result[1].timeTaken >= 0
          /\ calls["entities"] = 0
          /\ calls["relations"] = 0
    /\ (FusionDone /\ vectorResults = <<>> /\ keywordResults = <<>>) =>
          sortedResults = <<>>

\* C10 witness: a hybrid search over a non-empty graph whose rankers both returned
\* nothing, after some time has passed
C10_Witness ==
    /\ FusionDone
    /\ Nodes # {}
    /\ vectorResults = <<>>
    /\ keywordResults = <<>>
    /\ Returned
    /\ result[1].timeTaken > 0

----------------------------------------------------------------------------
(* C11, C13, C14, C17, C19, C20: failure, bookkeeping and scheduling of a search *)

\* C11: a search that has failed has returned no result, and a result that was returned
\* is complete: every query the search issued has answered, a hybrid search has issued
\* both ranker queries, and the result is either the empty result of an empty candidate
\* list or is built from the rows of both hydration queries
C11_CompleteOrError ==
    /\ pc = "failed" => result = <<>>
    /\ Len(result) = 1 =>
          /\ pc = "done"
          /\ calls["vector"] = 1
          /\ mode = "hybrid" => calls["keyword"] = 1
          /\ \/ /\ CandidateIds = <<>>
                /\ IsEmptyResult(result[1])
                /\ calls["entities"] = 0
                /\ calls["relations"] = 0
             \/ /\ CandidateIds # <<>>
                /\ calls["entities"] = 1
                /\ calls["relations"] = 1
                /\ result[1].entities = ResultEntities(entities)

\* C11 witness: the relation query of a search failed after the entity query had
\* returned rows
C11_Witness ==
    /\ pc = "failed"
    /\ calls["relations"] = 1
    /\ entities # <<>>
    /\ result = <<>>

\* C13: in every returned result, total is the number of entities of the result
C13_TotalIsEntityCount ==
    Returned => result[1].total = Len(result[1].entities)

\* C13 witness: a result with at least one entity and fewer entities than candidates
C13_Witness ==
    /\ Returned
    /\ result[1].total >= 1
    /\ Len(CandidateIds) > result[1].total

C19_FusedScoresPositive ==
    FusionDone =>
        \A i \in 1..Len(sortedResults) : FracLT(Frac(0, 1), sortedResults[i].score)

\* C20: no capability of the store is invoked more than once by a search
C20_NoRetries ==
    \A c \in Capabilities : calls[c] <= 1

\* C20 witness: the keyword query of a search failed and nothing was issued after it
C20_Witness ==
    /\ pc = "failed"
    /\ calls["vector"] = 1
    /\ calls["keyword"] = 1
    /\ calls["entities"] = 0

----------------------------------------------------------------------------
(* C12, C15, C16, C18: the observations of an entity as text *)

\* C12: the observations of every entity of a returned result are a list; an entity
\* whose observations property is missing or is no JSON text has the empty list
C12_ObservationsAlwaysList ==
    Returned =>
        \A i \in 1..Len(result[1].entities) :
            LET raw == entities[i].observations
                obs == result[1].entities[i].observations
            IN /\ obs.kind = "list"
               /\ (raw.kind = "null" \/ ~JsonParse(raw).ok) => obs = ListValue(<<>>)

\* C15: the lexical score of an entity is nameBoost + 0.5 * obsMatches, nameBoost being
\* 2.0 if the name contains q and 1.0 if not, obsMatches the number of the entity's
\* observations that contain q (scores in halves)
C15_LexicalScore ==
    (lexical # <<>> /\ lexical[1].kind = "row") =>
        lexical[1].bm25Score
            = (IF Contains(doc.name, queryText) THEN 4 ELSE 2)
              + CountMatching(doc.observations, queryText)

C18_RoundTrip ==
    readBack # <<>> => readBack[1] = ListValue(doc.observations)

\* C18 witness: a list of at least two observations, one with a quote and one with a
\* backslash, was written and read back
C18_Witness ==
    /\ readBack # <<>>
    /\ Len(doc.observations) >= 2
    /\ \E i \in 1..Len(doc.observations) : Quote \in Range(doc.observations[i])
    /\ \E i \in 1..Len(doc.observations) : Backslash \in Range(doc.observations[i])
    /\ readBack[1].kind = "list"
    /\ Len(readBack[1].items) = Len(doc.observations)

----------------------------------------------------------------------------
(* Properties of the tools *)

\* The caller whose MERGE statement returns in this step, with a result entry for entity n
Merged(p, n) ==
    /\ invocation[p].tool = "create_entities"
    /\ invocation[p].pc = "merge"
    /\ n = invocation[p].input[invocation[p].i]
    /\ Len(invocation'[p].results) = Len(invocation[p].results) + 1
    /\ invocation'[p].results[Len(invocation'[p].results)].kind = "ok"

\* C21: for each entity processed by create_entities the reported wasCreated is true if
\* and only if no entity with that name existed in the store before it was processed,
\* and false whenever an existing entity (also one processed earlier in the same or a
\* concurrent call) was updated
C21_WasCreatedIffNew ==
    [][\A p \in Procs, n \in Names :
          Merged(p, n) =>
              (invocation'[p].results[Len(invocation'[p].results)].wasCreated
                  <=> entState[n] = "absent")]_vars

\* The entries of a create_entities invocation so far are those of the entities
\* processed so far, in input order
EntriesFollowInput(rec) ==
    /\ rec.pc \in {"embed", "merge"} => Len(rec.results) = rec.i - 1
    /\ rec.pc = "return" => Len(rec.results) = Len(rec.input)
    /\ \A j \in 1..Len(rec.results) : rec.results[j].name = rec.input[j]

\* A step in which the entity being processed by p fails
Failed(p) ==
    /\ invocation[p].tool = "create_entities"
    /\ invocation[p].pc \in {"embed", "merge"}
    /\ Len(invocation'[p].results) = Len(invocation[p].results) + 1
    /\ invocation'[p].results[Len(invocation'[p].results)].kind = "error"

\* C24: create_entities processes entities individually: the result list has exactly
\* one entry per input entity in input order, and a failure while processing one entity
\* is recorded as that entry's error, without preventing the processing of later
\* entities or undoing the writes of earlier ones
C24_EntitiesIndividually ==
    /\ [](\A p \in Procs :
              invocation[p].tool = "create_entities" => EntriesFollowInput(invocation[p]))
    /\ [][\A p \in Procs :
              Failed(p) =>
                  /\ UNCHANGED <<entState, entStamp, obsState>>
                  /\ invocation'[p].results[Len(invocation'[p].results)].name
                        = invocation[p].input[invocation[p].i]
                  /\ invocation[p].i < Len(invocation[p].input) =>
                        /\ invocation'[p].pc = "embed"
                        /\ invocation'[p].i = invocation[p].i + 1]_vars

\* C24 witness: a batch of two whose first entity failed and whose second was written
C24_Witness ==
    /\ invocation[1].tool = "create_entities"
    /\ invocation[1].pc = "return"
    /\ Len(invocation[1].input) = 2
    /\ invocation[1].results[1].kind = "error"
    /\ invocation[1].results[2].kind = "ok"
    /\ entState[invocation[1].input[2]] = "live"
    /\ entState[invocation[1].input[1]] = "absent"

\* C25: the text returned when a tool fails depends only on the operation name: two
\* failures of the same operation with different internal messages give the same text,
\* and the message is no part of it
C25_ErrorTextByOperation ==
    /\ \A r1, r2 \in responses : r1.operation = r2.operation => r1.text = r2.text
    /\ \A r \in responses : r.message \notin Range(r.text)

\* C25 witness: a tool and an entity of a batch have each failed with two different
\* internal messages
C25_Witness ==
    /\ \E r1, r2 \in responses :
           r1.operation = "semantic_search" /\ r2.operation = "semantic_search"
           /\ r1.message # r2.message
    /\ \E r1, r2 \in responses :
           r1.operation = "create_entity" /\ r2.operation = "create_entity"
           /\ r1.message # r2.message

\* C22: get_graph_at_time(t) returns exactly the entities and relations that were
\* visible at time t, for every history of create_entities, delete_entities and
\* re-creating a previously deleted entity performed before the query
C22_GraphAsItWas ==
    atTime # <<>> =>
        /\ atTime[1].entities = history[atTime[1].timestamp].entities
        /\ atTime[1].relations = history[atTime[1].timestamp].relations

\* The step in which the statement of a delete_entities call of p runs
Deletes(p) == invocation[p] = Idle /\ invocation'[p].tool = "delete_entities"

\* Every name, as the $names of a hydration statement
AllNames == CHOOSE o \in Orderings(Names) : TRUE

\* C23: after delete_entities(names) succeeds, every entity named in names and every
\* relation incident to such an entity is no longer visible, so none of them is returned
\* by open_nodes, search_nodes, read_graph or the hydration of a search; actuallyDeleted
\* is the number of named entities that were visible before the call
C23_DeletedIsInvisible ==
    [][\A p \in Procs :
          Deletes(p) =>
              LET names == invocation'[p].input
              IN /\ \A n \in names :
                        /\ entState'[n] # "live"
                        /\ n \notin OpenNodesEntities(Names)'
                        /\ n \notin SearchNodesEntities'
                        /\ n \notin ReadGraphEntities'
                        /\ ~EntityVisible(n)'
                 /\ \A r \in RelPairs :
                        (r[1] \in names \/ r[2] \in names) =>
                            /\ relState'[r] # "live"
                            /\ r \notin OpenNodesRelations(Names)'
                            /\ r \notin ReadGraphRelations'
                            /\ ~RelationMatches(r, AllNames)'
                 /\ invocation'[p].results[1].actuallyDeleted
                        = Cardinality({n \in names : entState[n] = "live"})]_vars

\* C23 witness: a call that named two entities, one of them visible and with a visible
\* relation, has deleted that one and the relation
C23_Witness ==
    \E p \in Procs :
        /\ invocation[p].tool = "delete_entities"
        /\ Cardinality(invocation[p].input) = 2
        /\ invocation[p].results[1].actuallyDeleted = 1
        /\ \E r \in RelPairs : relState[r] = "deleted"
        /\ \A n \in invocation[p].input : entState[n] = "deleted"

\* C29: every relation whose validTo is absent connects two entities whose validTo is
\* absent, after any interleaving of the writing tools from an empty graph
C29_LiveRelationLiveEndpoints ==
    \A r \in RelPairs :
        (relState[r] = "live" /\ relStamp[r].validTo = NoStamp) =>
            /\ entState[r[1]] = "live" /\ entStamp[r[1]].validTo = NoStamp
            /\ entState[r[2]] = "live" /\ entStamp[r[2]].validTo = NoStamp

\* C29 witness: a relation is visible again after one of its endpoints was deleted and
\* created again; the deleting call has not yet returned to its caller
C29_Witness ==
    \E p \in Procs, r \in RelPairs :
        /\ relState[r] = "live"
        /\ invocation[p].tool = "delete_entities"
        /\ invocation[p].results[1].actuallyDeleted = 1
        /\ r[1] \in invocation[p].input

\* C30: when two add_observations invocations on the same visible entity have both
\* reported success, the entity's stored observations contain every content string
\* passed to either of them and all previously stored observations, each exactly once
C30_NoObservationLost ==
    (\A p \in Procs :
        /\ invocation[p].tool = "add_observations"
        /\ invocation[p].pc = "return"
        /\ invocation[p].results[1].kind = "ok")
    => LET stored == ParseObservations(obsState["A"]).items
       IN /\ \A p \in Procs :
                 Range(invocation[p].input[1].contents) \cup Range(invocation[p].existing)
                     \subseteq Range(stored)
          /\ \A i, j \in 1..Len(stored) : stored[i] = stored[j] => i = j

----------------------------------------------------------------------------
(* Properties of the OAuth utilities *)

\* C26 as claimed: verifyAndDecodeState returns a state only for tokens signature.payload
\* whose signature is the valid HMAC of that payload under the secret, and then returns
\* the data passed to signState; a token whose payload or signature was altered, or that
\* does not have exactly two dot-separated parts, is rejected and yields no state
C26_OnlyTheIssuedToken ==
    verdict # <<>> =>
        /\ verdict[1].ok =>
              /\ Len(Split(presented)) = 2
              /\ FromHex(Split(presented)[1]) = Hmac(Secret, Split(presented)[2])
              /\ verdict[1].value = issued[1]
        /\ presented # SignState(issued[1], Secret) =>
              ~verdict[1].ok /\ verdict[1].value = NullValue

\* The token differs from the issued one at most in the letter case of the hexadecimal
\* digits of its signature
IssuedUpToHexCase(token, data) ==
    /\ Len(Split(token)) = 2
    /\ Split(token)[2] = EncodeState(data)
    /\ Len(Split(token)[1]) = 2 * DigestBytes
    /\ \A i \in 1..Len(Split(token)[1]) :
           HexValue(Split(token)[1][i]) = HexValue(SignData(Secret, EncodeState(data))[i])
    /\ IsHex(Split(token)[1])

\* C26 amended: as claimed, except that a signature altered only in the letter case of
\* its hexadecimal digits is still accepted
C26_OnlyTheIssuedSignature ==
    verdict # <<>> =>
        /\ verdict[1].ok =>
              /\ Len(Split(presented)) = 2
              /\ FromHex(Split(presented)[1]) = Hmac(Secret, Split(presented)[2])
              /\ verdict[1].value = issued[1]
        /\ presented = SignState(issued[1], Secret) => verdict[1].ok
        /\ ~IssuedUpToHexCase(presented, issued[1]) =>
              ~verdict[1].ok /\ verdict[1].value = NullValue

\* C26 witness: the issued token of a state with two strings was accepted
C26_Witness ==
    /\ verdict # <<>>
    /\ verdict[1].ok
    /\ presented = SignState(issued[1], Secret)
    /\ Len(issued[1].items) = 2

\* The cookie value is signature.payload, the signature the HMAC of the payload under
\* the deployment's secret and the payload the list `list`
CarriesList(value, list) ==
    LET parts == Split(value)
    IN /\ Len(parts) = 2
       /\ UrlSafeBase64Decode(parts[2]).ok
       /\ UrlSafeBase64Decode(parts[2]).text = JsonStringify(list)
       /\ IsHex(parts[1])
       /\ Len(parts[1]) = 2 * DigestBytes
       /\ FromHex(parts[1]) = Hmac(Secret, JsonStringify(list))

\* The lists of client ids
ClientIdLists == UNION {[1..n -> ClientIds] : n \in 0..2}

Approves(value, clientId) ==
    \E list \in ClientIdLists : clientId \in Range(list) /\ CarriesList(value, list)

ApprovalCookies(header) == {i \in 1..Len(header) : header[i].name = CookieName}

\* C27: GET /authorize for a clientId redirects straight to GitHub only if the request
\* carries an approval cookie with a valid signature whose list contains that clientId;
\* with no approval cookie, or when the approval cookie that is read has a signature
\* that does not verify, a malformed payload or a list without the clientId, the
\* approval dialog is rendered.
C27_RedirectOnlyIfApproved ==
    (authorize.pc = "done" /\ authorize.clientId # <<>>) =>
        /\ authorize.response \in {"redirect", "dialog"}
        /\ authorize.response = "redirect" =>
               \E i \in ApprovalCookies(authorize.header) :
                   Approves(authorize.header[i].value, authorize.clientId)
        /\ (\/ ApprovalCookies(authorize.header) = {}
            \/ \E i \in ApprovalCookies(authorize.header) :
                   /\ \A j \in ApprovalCookies(authorize.header) : i <= j
                   /\ ~Approves(authorize.header[i].value, authorize.clientId))
               => authorize.response = "dialog"

\* C27 witness: the cookie set by an approval comes back and the dialog is skipped
C27_Witness ==
    /\ authorize.pc = "done"
    /\ authorize.jar # <<>>
    /\ authorize.header = <<Cookie(CookieName, authorize.jar[1])>>
    /\ authorize.response = "redirect"

\* The state parameter is signature.payload with the HMAC of the payload under the
\* deployment's secret, and the payload is the data of an AuthRequest with a clientId
StateVerifiedWithClientId(state) ==
    LET parts == Split(state)
    IN /\ Len(parts) = 2
       /\ IsHex(parts[1])
       /\ Len(parts[1]) = 2 * DigestBytes
       /\ FromHex(parts[1]) = Hmac(Secret, parts[2])
       /\ \E d \in StateData : d.items # <<>> /\ parts[2] = EncodeState(d)

\* C28: completeAuthorization is invoked only after, in the same request, no error
\* parameter was present, the state's signature verified and it carried a clientId, a
\* code was present, the token exchange returned an access token and the user lookup
\* succeeded; every other path ends in an error response without completing.
C28_CompletesOnlyAfterAllChecks ==
    /\ callback.completed =>
           /\ ~callback.error
           /\ StateVerifiedWithClientId(callback.state)
           /\ callback.code
           /\ callback.exchange = "token"
           /\ callback.user = "user"
    /\ callback.pc = "done" =>
           /\ Len(callback.response) = 1
           /\ IF callback.completed THEN callback.response[1].status = 302
              ELSE callback.response[1].status >= 400

\* C28 witness: a callback passed every check and authorization was completed
C28_Witness ==
    /\ callback.pc = "done"
    /\ callback.completed
    /\ callback.response = <<TextResponse("redirect", 302)>>

====
